---- MODULE Spec2Model ----
(***************************************************************************)
(* One LavalinkPlayer session of src/utils/music/models.py as a state      *)
(* machine.  Every coroutine of the player (hook, process_next, track_end, *)
(* _wait_for_new_node, ...) is a task whose position is the await it is    *)
(* suspended in; an action is the code a task runs between two awaits,     *)
(* which asyncio executes atomically.  A segment of code is an operator    *)
(* from a state record to a state record, so that a call made without a    *)
(* suspension in between (track_end returning into process_next) is the    *)
(* composition of two operators.                                           *)
(***************************************************************************)
EXTENDS Integers, Sequences, FiniteSets, TLC

\* ------------------------------------------------------------------ bounds
MaxTasks == 2       \* coroutines of one player in flight at the same time
MaxQueue == 2       \* tracks the commands put into the queue
MaxTime  == 16      \* seconds of wall clock that are modelled
MaxOcc   == 6       \* TrackException events the node raises in one run
MaxEnds  == 4       \* completions that are counted for the loop properties
MaxInit  == 2       \* tracks in the queue a scenario starts from
MaxFaults == 2      \* TrackException events of a failure scenario
MaxFailInit == 1    \* tracks in the queue a failure scenario starts from
MaxDowns == 1       \* times a node goes down
MaxRaw   == 2       \* tracks a related-content lookup returns
MaxDestroy == 2     \* process_destroy coroutines created and not yet run
MaxDestroyFaults == 1  \* TrackException events of a destroy scenario
IdleTimeout == 3    \* config IDLE_TIMEOUT, seconds
MaxIdleTime == 5    \* seconds of wall clock of the idle-timer scenarios
MaxIdleEnq  == 1    \* tracks enqueued in an idle-timer scenario
MaxIdleCmds == 2    \* process_next commands of an idle-timer scenario
MembersTimeout == 2 \* config WAIT_FOR_MEMBERS_TIMEOUT, seconds
MaxHandlers == 2    \* error-handler coroutines in flight at the same time
MaxCloses == 2      \* WebsocketClosed events of a voice scenario
MaxQuietTime == 6   \* seconds the clock ticks through in a quiet-period scenario
MaxLookups == 1     \* process_next commands of a failed-lookup scenario
MaxLoops == 2       \* repeat counter a track is enqueued with
MaxRejoinTime == 4  \* seconds the clock ticks through in a rejoin scenario
MaxObservers == 3   \* users of the voice channel in a presence scenario
MaxHist == 6        \* entries of the history a seed scenario starts with

\* ------------------------------------------------------- program constants
PlayedMaxLen    == 20      \* deque(maxlen=20)
AutoplayMaxLen  == 30      \* deque(maxlen=30)
FailedMaxLen    == 30      \* deque(maxlen=30)
ShortTrackMs    == 60000   \* track_end: duration < 60000
MinAutoplayMs   == 90000   \* get_autoqueue_tracks: duration < 90000
MaxAltSearchMs  == 600000  \* process_next: duration > 600000
Retry403Window  == 7       \* config ERROR_403_RETRIES, seconds
Retry403Max     == 3       \* retries_403["counter"] < 3
Retry403Sleep   == 3       \* asyncio.sleep(3)
Extra403Ms      == 430     \* config ERROR_403_ADDITIONAL_MILLISECONDS
GeneralRetries  == 6       \* retries_general_errors counter
GeneralWindow   == 180     \* seconds
CooldownDefault == 10      \* cooldown = 10
CooldownGeneral == 4       \* cooldown = 4
NodePollSleep   == 5       \* _wait_for_new_node: asyncio.sleep(5)
MaxSeeds        == 4       \* get_autoqueue_tracks: len(tracks_search) > 4
TrackEndSleep7  == 7       \* track_end: asyncio.sleep(7) after a short track
UnresolvedSleep == 10      \* process_next: asyncio.sleep(10), no result
AltSkipSleep    == 13      \* process_next: asyncio.sleep(13)
SearchErrSleep  == 7       \* process_next: asyncio.sleep(7), search raised
AutoplayErrSleep == 7      \* get_autoqueue_tracks: asyncio.sleep(7)
SpotifyAttempts == 3       \* get_autoqueue_tracks: for i in range(3)
SpotifyRetrySleep == 5     \* get_autoqueue_tracks: asyncio.sleep(5)
ResumeLogSleep  == 2       \* members_timeout: asyncio.sleep(1.5), in clock ticks
AutoplayRetrySleep == 2    \* get_autoqueue_tracks: asyncio.sleep(1.5), in clock ticks
Epoch           == 1000    \* seconds on the wall clock when the run starts

None == "none"

\* ------------------------------------------------------------------ tracks
(* A track is an immutable identity with the metadata the code reads.      *)
(*   A  resolved youtube track, 4 s  (shorter than ShortTrackMs)           *)
(*   B  resolved youtube track, 700 s (longer than MaxAltSearchMs)         *)
(*   C  PartialTrack from spotify, 120 s, no id until resolve_track        *)
(*   D  LavalinkTrack of soundcloud restored without an id, 120 s          *)
(*   R  autoplay-derived resolved youtube track, 120 s                     *)
UserTracks == {"A", "B", "C", "D"}
Tracks     == UserTracks \cup {"R"}

IsPartial(tr)  == tr = "C"
Duration(tr)   == CASE tr = "A" -> 4000
                    [] tr = "B" -> 700000
                    [] OTHER    -> 120000
IsStream(tr)   == FALSE
SourceName(tr) == CASE tr \in {"A", "B", "R"} -> "youtube"
                    [] tr = "C" -> "spotify"
                    [] OTHER    -> "soundcloud"
IsAutoplay(tr) == tr = "R"
HasIdAtStart   == {"A", "B", "R"}

\* bot.music.nodes, a dict: NodeOrder is its iteration order.
NodeOrder == <<"N1", "N2">>
Nodes     == {"N1", "N2"}

\* config PARTIALTRACK_SEARCH_PROVIDER
PartialtrackSearchProvider == "ytsearch"

\* --------------------------------------------------------------- variables
VARIABLES
    current, queue, played, failed_tracks, queue_autoplay, last_track,
    locked, is_closing, auto_pause, paused, loop, is_previows_music,
    native_yt, autoplay, keep_connected, node, retries_403,
    retries_general_errors, last_update, last_position, track_loops,
    track_id, temp_id, idle_task, new_node_task,
    members_timeout_task, destroy_task, members,
    tasks, now, timed, nodes, node_playing, pending_ends, peer, app, ghost

vars == << current, queue, played, failed_tracks, queue_autoplay, last_track,
           locked, is_closing, auto_pause, paused, loop, is_previows_music,
           native_yt, autoplay, keep_connected, node, retries_403,
           retries_general_errors, last_update, last_position, track_loops,
           track_id, temp_id, idle_task, new_node_task,
           members_timeout_task, destroy_task, members,
           tasks, now, timed, nodes, node_playing, pending_ends, peer,
           app, ghost >>

\* The state as one record, for the operators that model code segments.
S == [ current |-> current, queue |-> queue, played |-> played,
       failed_tracks |-> failed_tracks, queue_autoplay |-> queue_autoplay,
       last_track |-> last_track, locked |-> locked, is_closing |-> is_closing,
       auto_pause |-> auto_pause, paused |-> paused, loop |-> loop,
       is_previows_music |-> is_previows_music, native_yt |-> native_yt,
       autoplay |-> autoplay, keep_connected |-> keep_connected, node |-> node,
       retries_403 |-> retries_403,
       retries_general_errors |-> retries_general_errors,
       last_update |-> last_update, last_position |-> last_position,
       track_loops |-> track_loops, track_id |-> track_id, temp_id |-> temp_id,
       idle_task |-> idle_task, new_node_task |-> new_node_task,
       members_timeout_task |-> members_timeout_task,
       destroy_task |-> destroy_task, members |-> members,
       tasks |-> tasks, now |-> now, timed |-> timed, nodes |-> nodes,
       node_playing |-> node_playing, pending_ends |-> pending_ends,
       peer |-> peer, app |-> app, ghost |-> ghost ]

Apply(s) ==
    /\ current' = s.current /\ queue' = s.queue /\ played' = s.played
    /\ failed_tracks' = s.failed_tracks /\ queue_autoplay' = s.queue_autoplay
    /\ last_track' = s.last_track /\ locked' = s.locked
    /\ is_closing' = s.is_closing /\ auto_pause' = s.auto_pause
    /\ paused' = s.paused /\ loop' = s.loop
    /\ is_previows_music' = s.is_previows_music /\ native_yt' = s.native_yt
    /\ autoplay' = s.autoplay /\ keep_connected' = s.keep_connected
    /\ node' = s.node /\ retries_403' = s.retries_403
    /\ retries_general_errors' = s.retries_general_errors
    /\ last_update' = s.last_update /\ last_position' = s.last_position
    /\ track_loops' = s.track_loops /\ track_id' = s.track_id
    /\ temp_id' = s.temp_id /\ idle_task' = s.idle_task
    /\ new_node_task' = s.new_node_task /\ tasks' = s.tasks /\ now' = s.now
    /\ members_timeout_task' = s.members_timeout_task
    /\ destroy_task' = s.destroy_task /\ members' = s.members
    /\ timed' = s.timed /\ nodes' = s.nodes /\ node_playing' = s.node_playing
    /\ pending_ends' = s.pending_ends /\ peer' = s.peer /\ ghost' = s.ghost
    /\ app' = s.app

\* ------------------------------------------------------------------- tasks
(* A task is one coroutine invocation started by the event loop: a hook    *)
(* call for a node event, or a command.  pc names the await it is          *)
(* suspended in; track, start, clear are the locals of process_next that   *)
(* live across its awaits.  inPN, tookLock, atLocked and dup only record   *)
(* history for the properties below.                                       *)
Tasks == 1..MaxTasks

FreeTask == [ pc |-> "free", kind |-> "none", track |-> None, start |-> 0,
              clear |-> TRUE, wake |-> 0, inPN |-> FALSE, tookLock |-> FALSE,
              atLocked |-> FALSE, dup |-> FALSE, cause |-> "none",
              target |-> None, rest |-> <<>>, tries |-> 0 ]

\* Another player of the same bot: the attributes of it that the code of
\* this player touches.  node = None: there is no other player.  before:
\* it was created before this player, so it comes first in node.players.
NoPeer == [ node |-> None, current |-> None, last_track |-> None,
            locked |-> FALSE, waiter |-> FALSE, before |-> FALSE ]

\* The application process: ErrorHandler and BotPool.  handlers are the
\* coroutines of ErrorHandler in flight, bots the start_bot coroutines of
\* BotPool.run_bots; killing_state is BotPool.killing_state (False, True
\* or "ratelimit"); alive ends when the shell command "kill 1" has run.
Handlers == 1..MaxHandlers

Bots == {"bot1", "bot2"}

NoHandler == [ pc |-> "free", which |-> "none", error_msg |-> FALSE,
               kill_process |-> FALSE, send_webhook |-> FALSE ]

\* The users of a voice channel that run the presence client, and what
\* rpc_token_cache holds for a user: a token, an empty token, or nothing.
Observers == {"u1", "u2", "u3"}
Tokens    == {"tok", ""}

\* No _send_rpc_data coroutine.
NoRpc == [ pc |-> "none", users |-> <<>>, rest |-> <<>>, tried |-> {},
           sent |-> <<>>, failed |-> {} ]

AppStart(kill_on_429, auto_report) ==
    [ alive |-> TRUE, killing_state |-> "False",
      KILL_ON_429 |-> kill_on_429,
      AUTO_ERROR_REPORT_WEBHOOK |-> auto_report,
      handlers |-> [h \in Handlers |-> NoHandler],
      bots |-> [b \in Bots |-> "new"],
      failed_bots |-> {}, told |-> FALSE, spotify |-> FALSE,
      ENABLE_RPC_AUTH |-> FALSE,
      rpc_token_cache |-> [u \in Observers |-> None],
      rpc |-> NoRpc ]

NoWaiter == [ pc |-> "none", ignore |-> None, wake |-> 0, target |-> None ]

\* A timer coroutine that does not exist (the attribute is None): pc is the
\* await the coroutine is suspended in, wake the end of its sleep.
NoTimer == [ pc |-> "none", wake |-> 0 ]

\* idle_task = None.  orphan is an idling_mode coroutine that caught its
\* cancellation and runs on while idle_task no longer refers to it.
NoIdle == [ pc |-> "none", wake |-> 0, orphan |-> NoTimer ]

\* No process_destroy has run: calls counts the process_destroy coroutines
\* playerdestroy has created and that have not run yet.
NoDestroy == [ pc |-> "none", calls |-> 0 ]

NodeIdle == [ track |-> None, since |-> 0, from |-> 0 ]

Min(a, b) == IF a < b THEN a ELSE b

AllIdle == \A t \in Tasks : tasks[t].pc = "free"

FreeSlots == { t \in Tasks : tasks[t].pc = "free" }

NewTask == CHOOSE t \in FreeSlots : \A u \in FreeSlots : t <= u

At(s, t, pc) == [s EXCEPT !.tasks[t].pc = pc]

Sleep(s, t, pc, d) == [s EXCEPT !.tasks[t].pc = pc, !.tasks[t].wake = s.now + d]

\* A sleep is over when its time has passed; where the clock is not
\* modelled (timed = FALSE) a sleep may end at any moment.
Awake(t) == timed => now >= tasks[t].wake

\* The coroutine of task t returns to the event loop.  leak records a
\* process_next that took the lock and returns with the lock still set and
\* no _wait_for_new_node scheduled to clear it.
Ret(s, t) ==
    [s EXCEPT !.tasks[t] = FreeTask,
              !.ghost.leak = @ \/ ( /\ s.tasks[t].tookLock
                                    /\ s.locked
                                    /\ s.new_node_task.pc = "none" )]

\* deque.append without maxlen.
AppendMax_unbounded(q, x, n) == Append(q, x)

\* deque.append on a deque(maxlen=n): the oldest entry is evicted.
AppendMax(q, x, n) ==
    LET r == Append(q, x) IN IF Len(r) > n THEN Tail(r) ELSE r

\* deque.insert(1, x)
InsertSecond(q, x) == IF q = <<>> THEN <<x>> ELSE <<Head(q), x>> \o Tail(q)

\* ---------------------------------------------------- rendering node (env)
(* wavelink.Player.play: the play request reaches the bound node, which    *)
(* starts the track at the start offset; a track it was still playing ends *)
(* with reason REPLACED.  A new playback has no position read yet.         *)
Play(s, tr, start) ==
    [s EXCEPT !.current = tr,
              !.ghost.read = -1,
              !.node_playing = [track |-> tr, since |-> s.now, from |-> start],
              !.pending_ends = IF s.node_playing.track # None
                               THEN @ \cup {"REPLACED"} ELSE @]

\* wavelink.Player.stop: the node stops; a track it was playing ends with
\* reason STOPPED.
Stop(s) ==
    [s EXCEPT !.current = None,
              !.node_playing = NodeIdle,
              !.pending_ends = IF s.node_playing.track # None
                               THEN @ \cup {"STOPPED"} ELSE @]

\* The position the node itself has reached in the track it plays (ms).
NodePosition(s) == s.node_playing.from + (s.now - s.node_playing.since) * 1000

\* ------------------------------------------------------- derived position
\* position with the elapsed time subtracted instead of added.
Position_countdown(s) ==
    IF s.current = None THEN 0
    ELSE IF s.paused /\ ~s.auto_pause
         THEN Min(s.last_position, Duration(s.current))
    ELSE LET position == s.last_position - (s.now * 1000 - s.last_update)
         IN IF position > Duration(s.current) \/ position < 0 THEN 0
            ELSE Min(position, Duration(s.current))

\* last_position + (time() * 1000 - last_update), the extrapolated position.
Extrapolated(s) == s.last_position + (s.now * 1000 - s.last_update)

\* LavalinkPlayer.position; is_playing is "connected and current is set".
Position(s) ==
    IF s.current = None THEN 0
    ELSE IF s.paused /\ ~s.auto_pause
         THEN Min(s.last_position, Duration(s.current))
    ELSE LET position == s.last_position + (s.now * 1000 - s.last_update)
         IN IF position > Duration(s.current) THEN 0
            ELSE Min(position, Duration(s.current))

\* update_state with the position the node reports; time() is now.
update_state(s, position) ==
    [s EXCEPT !.last_position = IF ~s.auto_pause THEN position ELSE @,
              !.last_update = s.now * 1000]

get_start_pos(s, tr, extra_milliseconds) ==
    IF ~IsStream(tr)
    THEN LET difference == (s.now * 1000 + extra_milliseconds) - s.last_update
             position   == s.last_position + difference
         IN IF 0 < position /\ position < Duration(tr)
            THEN Min(position, Duration(tr)) ELSE 0
    ELSE 0

\* --------------------------------------------------------------- track_end
\* track_end up to its first await: the lock is taken without a test.
track_end_enter(s, t) ==
    Sleep([s EXCEPT !.locked = TRUE], t, "te_sleep", 0)

\* track_end after its sleeps: the finished track is reinserted or filed.
\* track_end without the history entry / with the looped track put in front.
track_end_body_nohistory(s) ==
    LET lt == s.last_track
        s1 == IF lt = None
              THEN [s EXCEPT !.is_previows_music = FALSE]
              ELSE IF s.loop = "current"
                   THEN [s EXCEPT !.queue = <<lt>> \o @]
              ELSE IF s.loop = "queue"
                   THEN [s EXCEPT !.queue = Append(@, lt)]
              ELSE s
    IN [s1 EXCEPT !.locked = FALSE]

track_end_body_front(s) ==
    LET lt == s.last_track
        s1 == IF lt = None
              THEN [s EXCEPT !.is_previows_music = FALSE]
              ELSE IF s.loop \in {"current", "queue"}
                   THEN [s EXCEPT !.queue = <<lt>> \o @]
              ELSE IF ~IsAutoplay(lt)
                   THEN [s EXCEPT !.played = AppendMax(@, lt, PlayedMaxLen)]
              ELSE s
    IN [s1 EXCEPT !.locked = FALSE]

track_end_body(s) ==
    LET lt == s.last_track
        s1 == IF lt = None
              THEN [s EXCEPT !.is_previows_music = FALSE]
              ELSE IF s.loop = "current"
                   THEN [s EXCEPT !.queue = <<lt>> \o @]
              ELSE IF s.is_previows_music
                   THEN [s EXCEPT !.queue = InsertSecond(@, lt),
                                  !.is_previows_music = FALSE]
              ELSE IF s.track_loops[lt] > 0
                   THEN [s EXCEPT !.track_loops[lt] = @ - 1,
                                  !.queue = <<lt>> \o @]
              ELSE IF s.loop = "queue"
                   THEN [s EXCEPT !.queue = Append(@, lt)]
              ELSE IF ~IsAutoplay(lt)
                   THEN [s EXCEPT !.played = AppendMax(@, lt, PlayedMaxLen)]
              ELSE s
    IN [s1 EXCEPT !.locked = FALSE]

\* ------------------------------------------------------------ process_next
\* _new_node_task = create_task(_wait_for_new_node(ignore_node=ign)); the
\* new coroutine has not run yet.
CreateWaiter(s, ign) ==
    [s EXCEPT !.new_node_task = [pc |-> "created", ignore |-> ign, wake |-> 0,
                                 target |-> None],
              !.ghost.waitFor = None]

\* History: the node wait was started by the TrackException handler, for
\* the track that failed.
NoteWaiter(s) == [s EXCEPT !.ghost.waitFor = s.ghost.failing]

\* get_autoqueue_tracks: the history entries used as seeds.
RECURSIVE FirstEligible(_, _)
FirstEligible(seq, acc) ==
    IF seq = <<>> \/ Len(acc) > MaxSeeds THEN acc
    ELSE FirstEligible(Tail(seq),
                       IF Duration(Head(seq)) < MinAutoplayMs THEN acc
                       ELSE Append(acc, Head(seq)))

Reverse(seq) == [i \in 1..Len(seq) |-> seq[Len(seq) + 1 - i]]

tracks_search(s) == Reverse(FirstEligible(s.played \o s.queue_autoplay, <<>>))

\* deque(maxlen=n).extend
RECURSIVE ExtendMax(_, _, _)
ExtendMax(q, xs, n) ==
    IF xs = <<>> THEN q ELSE ExtendMax(AppendMax(q, Head(xs), n), Tail(xs), n)

Range(seq) == { seq[i] : i \in DOMAIN seq }

\* The filter with the test against the seed tracks left out.
autoqueue_filter_noseed(s, raw) ==
    SelectSeq(raw, LAMBDA x : ~IsStream(x) /\ Duration(x) >= MinAutoplayMs)

\* get_autoqueue_tracks: of the raw results, those that are no seed track
\* (uri), no stream and not shorter than 90000 ms; they are autoplay tracks.
autoqueue_filter(s, raw) ==
    SelectSeq(raw, LAMBDA x : /\ x \notin Range(tracks_search(s))
                              /\ ~IsStream(x)
                              /\ Duration(x) >= MinAutoplayMs)

\* What a lookup can return: up to MaxRaw tracks, each the related track R
\* or an entry of the history.
RawResults(s) ==
    UNION { [1..k -> {"R"} \cup Range(s.played)] : k \in 0..MaxRaw }

\* History of the lookup: hit records that the raw result held a track
\* that is not in the history, no stream and not shorter than 90000 ms.
NoteLookup(s, raw) ==
    [s EXCEPT !.ghost.hit = \E i \in DOMAIN raw :
                               /\ raw[i] \notin Range(s.played)
                               /\ ~IsStream(raw[i])
                               /\ Duration(raw[i]) >= MinAutoplayMs]

\* idle_task.cancel(); idle_task = None.  The CancelledError is thrown into
\* the coroutine at its await: a coroutine that has not started or that
\* sleeps ends; in its first awaits idling_mode catches it (except:) and
\* runs on, no longer referred to by idle_task.
cancel_idle(it) ==
    [NoIdle EXCEPT !.orphan = IF it.pc = "await"
                              THEN [pc |-> "await", wake |-> 0]
                              ELSE it.orphan]

\* idle_task = create_task(idling_mode()); a coroutine the attribute still
\* referred to runs on.
create_idle(it) ==
    [pc |-> "created", wake |-> 0,
     orphan |-> IF it.pc \in {"created", "await", "sleep"}
                THEN [pc |-> it.pc, wake |-> it.wake] ELSE it.orphan]

\* process_next, empty queue, no candidate: stop, arm the idle timer.
pn_idle(s, t) ==
    Ret([Stop(s) EXCEPT !.last_track = None,
                        !.idle_task = create_idle(@)], t)

\* The end of a failed lookup with the lock left as it is.
aq_none_locked(s, t) ==
    Sleep([s EXCEPT !.ghost.aq = "failed"], t, "aq_fail", AutoplayErrSleep)

\* get_autoqueue_tracks: no seed gave a track; locked = False, the error
\* message, sleep(7).
aq_none(s, t) ==
    Sleep([s EXCEPT !.locked = FALSE, !.ghost.aq = "failed"],
          t, "aq_fail", AutoplayErrSleep)

\* get_autoqueue_tracks: the loop over the seeds, from the head of seeds to
\* the first await: the recommendations of spotify for a spotify seed when
\* bot.spotify is set, else node.get_tracks.
aq_seed(s, t, seeds) ==
    IF seeds = <<>> THEN aq_none(s, t)
    ELSE LET s1 == [s EXCEPT !.tasks[t].rest = seeds, !.tasks[t].tries = 0]
         IN IF SourceName(Head(seeds)) = "spotify" /\ s.app.spotify
            THEN At(s1, t, "aq_spotify")
            ELSE At(s1, t, "aq_lookup")

RECURSIVE process_next(_, _, _, _)
RECURSIVE pn_after_pop(_, _, _, _, _)
RECURSIVE pn_after_resolve(_, _)

\* process_next from "if clear_autoqueue" to the await of play/invoke_np.
pn_finish(s, t) ==
    LET track == s.tasks[t].track
        start == IF IsStream(track) THEN 0 ELSE s.tasks[t].start
        s1 == [s EXCEPT !.queue_autoplay = IF s.tasks[t].clear THEN <<>> ELSE @,
                        !.last_track = track,
                        !.is_previows_music = FALSE,
                        !.locked = FALSE,
                        !.current = track,
                        !.last_update = 0,
                        !.last_position = start,
                        !.paused = FALSE]
    IN IF s1.auto_pause
       THEN Ret([s1 EXCEPT !.last_update = s.now * 1000], t)
       ELSE At(Play(s1, track, start), t, "pn_play")

\* process_next after the PartialTrack block.
pn_after_resolve(s, t) ==
    LET track == s.tasks[t].track
    IN IF ~s.native_yt /\ SourceName(track) = "youtube"
       THEN IF IsStream(track) \/ Duration(track) > MaxAltSearchMs
            THEN process_next(
                   [s EXCEPT !.failed_tracks = AppendMax(@, track, FailedMaxLen)],
                   t, 0, TRUE)
            ELSE IF track \in s.temp_id THEN pn_finish(s, t)
                 ELSE At(s, t, "pn_altsearch")
       ELSE IF track \notin s.track_id THEN At(s, t, "pn_search")
       ELSE pn_finish(s, t)

\* process_next from "self.locked = True" on, a track in hand.
pn_after_pop(s, t, track, start, clear) ==
    LET s1 == [s EXCEPT !.locked = TRUE,
                        !.tasks[t].tookLock = TRUE,
                        !.tasks[t].track = track,
                        !.tasks[t].start = start,
                        !.tasks[t].clear = clear]
    IN IF IsPartial(track) /\ track \notin s.track_id
       THEN At(s1, t, "pn_resolve")
       ELSE pn_after_resolve(s1, t)

\* process_next from its entry to its first await (or its return).
process_next(s, t, start_position, clear_autoqueue) ==
    IF s.locked \/ s.is_closing THEN Ret(s, t)
    ELSE IF ~s.nodes[s.node].is_available
         THEN Ret(CreateWaiter(s, None), t)
    ELSE LET s0 == [s EXCEPT !.idle_task = cancel_idle(@),
                             !.tasks[t].inPN = TRUE]
         IN IF s0.queue # <<>>
            THEN pn_after_pop([s0 EXCEPT !.queue = Tail(@)], t, Head(s0.queue),
                              start_position, clear_autoqueue)
            ELSE IF ~(s0.autoplay \/ s0.keep_connected) THEN pn_idle(s0, t)
            \* get_autoqueue_tracks up to its first await
            ELSE IF s0.queue_autoplay # <<>>
                 THEN pn_after_pop([s0 EXCEPT !.queue_autoplay = Tail(@)], t,
                                   Head(s0.queue_autoplay), start_position, FALSE)
            ELSE IF tracks_search(s0) = <<>>
                 THEN pn_idle([s0 EXCEPT !.locked = FALSE], t)
            ELSE aq_seed([s0 EXCEPT !.locked = TRUE,
                                    !.tasks[t].start = start_position],
                         t, tracks_search(s0))

\* ------------------------------------------------------------ node choice
RECURSIVE FirstIn(_, _)
FirstIn(order, ok) ==
    IF order = <<>> THEN None
    ELSE IF Head(order) \in ok THEN Head(order)
    ELSE FirstIn(Tail(order), ok)

\* hook, node rotation: [n for n in nodes.values() if n.available and
\* n.is_available], of which node[0] is taken (None: the list is empty).
rotation_node(s) ==
    FirstIn(NodeOrder, { n \in Nodes : s.nodes[n].is_available })

\* _wait_for_new_node: sorted(available nodes other than ignore_node,
\* key=stats.players)[0]; sorted is stable, ties keep the dict order.
waiter_node(s, ignore_node) ==
    LET ok   == { n \in Nodes : s.nodes[n].is_available /\ n # ignore_node }
        best == { n \in ok : \A m \in ok : s.nodes[n].players <= s.nodes[m].players }
    IN FirstIn(NodeOrder, best)

\* wavelink.Player.change_node: the session is rebound to the node and
\* playback of current is re-armed there at the last known position.
change_node(s, n) ==
    LET s1 == [s EXCEPT !.node = n]
    IN IF s1.current = None THEN s1
       ELSE Play(s1, s1.current,
                 IF IsStream(s1.current) THEN 0 ELSE Position(s1))

\* ------------------------------------------------- hook: TrackException
(* History of the 403 handling, for the retry bound.  streak counts the    *)
(* 403 errors in a row that were answered by a retry in place, each for    *)
(* the same track on the same node and arriving within Retry403Window      *)
(* seconds of the arrival of the one before; escAt is the streak at the    *)
(* last escalation and escCause the error that was escalated.              *)
NoteLocalRetry(s, track) ==
    LET g     == s.ghost
        inWin == /\ g.lastOcc # -1
                 /\ s.now - g.lastOcc <= Retry403Window
                 /\ g.lastTrack = track
                 /\ g.lastNode = s.node
    IN [s EXCEPT !.ghost.streak = IF inWin THEN Min(g.streak + 1, MaxOcc) ELSE 1,
                 !.ghost.lastOcc = s.now,
                 !.ghost.lastTrack = track,
                 !.ghost.lastNode = s.node]

NoteEscalation(s, t) ==
    [s EXCEPT !.ghost.escAt = s.ghost.streak,
              !.ghost.escCause = s.tasks[t].cause,
              !.ghost.streak = 0,
              !.ghost.lastOcc = -1,
              !.ghost.lastTrack = None,
              !.ghost.lastNode = None]

\* hook, TrackException, from "await send_report()" at the end of the
\* rate-limit block: the generic classes, up to the cooldown sleep.
exc_general(s, t) ==
    LET track == s.tasks[t].track
        cause == s.tasks[t].cause
        g0    == IF s.retries_general_errors.set THEN s.retries_general_errors
                 ELSE [set |-> TRUE, counter |-> GeneralRetries,
                       last_node |-> s.node, last_time |-> s.now]
    IN IF cause = "decode"
       THEN LET s1 == [s EXCEPT !.retries_general_errors = g0,
                                !.queue = <<track>> \o @]
            IN IF /\ g0.counter < 1
                  /\ s.node = g0.last_node
                  /\ s.now - g0.last_time < GeneralWindow
               THEN Ret(NoteWaiter(CreateWaiter(s1, s.node)), t)
               ELSE LET g1 == IF g0.last_node = s.node
                              THEN [g0 EXCEPT !.last_time = s.now,
                                              !.counter = @ - 1]
                              ELSE [set |-> TRUE, counter |-> GeneralRetries,
                                    last_node |-> s.node, last_time |-> s.now]
                        s2 == [s1 EXCEPT !.retries_general_errors = g1]
                    IN Sleep([s2 EXCEPT !.tasks[t].start =
                                          get_start_pos(s2, track, 0)],
                             t, "ex_cooldown", CooldownGeneral)
       ELSE IF cause = "interrupted"
       THEN Ret(NoteWaiter(CreateWaiter([s EXCEPT !.queue = <<track>> \o @],
                                        None)), t)
       ELSE LET s1 == IF s.track_loops[track] = 0
                      THEN [s EXCEPT !.failed_tracks =
                                       AppendMax(@, track, FailedMaxLen)]
                      ELSE IF /\ s.keep_connected /\ ~IsAutoplay(track)
                              /\ Len(s.queue) > 15
                           THEN [s EXCEPT !.queue = Append(@, track)]
                      ELSE s
            IN Sleep([s1 EXCEPT !.tasks[t].start = 0],
                     t, "ex_cooldown", CooldownDefault)

\* hook, TrackException, escalation of a rate-limit error: the counters are
\* reset and, for a youtube-backed track, the node is rotated after 3 s.
exc_escalate(s, t) ==
    LET track == s.tasks[t].track
        s1 == NoteEscalation(
                [s EXCEPT !.retries_403 = [last_time |-> -1, counter |-> 0]], t)
    IN IF \/ SourceName(track) = "youtube"
          \/ ( /\ PartialtrackSearchProvider = "ytsearch"
               /\ SourceName(track) = "spotify" )
       THEN IF s1.nodes[s1.node].closing THEN Ret(s1, t)
            ELSE Sleep(s1, t, "ex_rotate", Retry403Sleep)
       ELSE exc_general(s1, t)

\* The limit with an off-by-one comparison.
retry_403_allowed_le(counter) == counter <= Retry403Max

\* The limit of counted local retries: retries_403["counter"] < 3.
retry_403_allowed(counter) == counter < Retry403Max

\* hook, TrackException, the 403/429 block up to its first sleep.
exc_rate(s, t) ==
    LET track == s.tasks[t].track
        r     == s.retries_403
    IN IF s.tasks[t].cause = "403" /\ s.nodes[s.node].retry_403
       THEN IF r.last_time = -1 \/ s.now - r.last_time > Retry403Window
            THEN LET s1 == NoteLocalRetry(
                             [s EXCEPT !.retries_403 =
                                         [last_time |-> s.now, counter |-> 0]],
                             track)
                 IN IF s1.auto_pause
                    THEN Ret([s1 EXCEPT !.locked = FALSE], t)
                    ELSE Sleep(Play(s1, track,
                                    get_start_pos(s1, track, Extra403Ms)),
                               t, "ex_403_first", Retry403Sleep)
            ELSE IF retry_403_allowed(r.counter)
            THEN Sleep(NoteLocalRetry([s EXCEPT !.retries_403.counter = @ + 1],
                                      track),
                       t, "ex_403_retry", Retry403Sleep)
            ELSE exc_escalate([s EXCEPT !.queue = Append(@, track)], t)
       ELSE exc_escalate(s, t)

\* hook, TrackException, from its entry to its first await.
hook_exception(s, t, cause) ==
    LET track == IF s.current # None THEN s.current ELSE s.last_track
    IN IF s.is_closing \/ s.locked THEN Ret(s, t)
       ELSE LET s1 == [s EXCEPT !.locked = TRUE, !.current = None,
                                !.tasks[t].track = track,
                                !.tasks[t].cause = cause,
                                !.ghost.failing = track]
            IN IF cause = "unavailable"
               THEN process_next(
                      [s1 EXCEPT !.new_node_task = NoWaiter,
                                 !.native_yt = FALSE,
                                 !.queue = <<track>> \o @,
                                 !.locked = FALSE],
                      t, Position(s1), TRUE)
               ELSE IF cause = "net"
               THEN Ret(NoteWaiter(CreateWaiter(s1, None)), t)
               ELSE IF cause \in {"403", "429"} THEN exc_rate(s1, t)
               ELSE exc_general(s1, t)

\* ------------------------------------------------- hook: TrackEnd, TrackStuck
\* A new coroutine for task slot t; atLocked: the lock was set on entry.
Spawn(s, t, kind) ==
    [s EXCEPT !.tasks[t] = [FreeTask EXCEPT !.pc = "run", !.kind = kind,
                                            !.atLocked = s.locked]]

\* hook for TrackEnd without the test of is_closing.
hook_track_end_open(s, t, reason) ==
    IF s.locked \/ s.auto_pause THEN Ret(s, t)
    ELSE IF reason = "FINISHED" THEN track_end_enter(s, t)
    ELSE IF reason = "STOPPED"
         THEN IF Len(s.queue) = 0 THEN Ret(s, t) ELSE track_end_enter(s, t)
    ELSE Ret(s, t)

\* hook, TrackEnd raised by the bound node, up to the sleep of track_end.
hook_track_end(s, t, reason) ==
    IF s.is_closing THEN Ret(s, t)
    ELSE IF s.locked \/ s.auto_pause THEN Ret(s, t)
    ELSE IF reason = "FINISHED" THEN track_end_enter(s, t)
    ELSE IF reason = "STOPPED"
         THEN IF Len(s.queue) = 0 THEN Ret(s, t) ELSE track_end_enter(s, t)
    ELSE Ret(s, t)

\* hook, TrackStuck, up to the sleep of track_end.
hook_track_stuck(s, t) ==
    IF s.is_closing THEN Ret(s, t) ELSE track_end_enter(s, t)

\* track_end after asyncio.sleep(0.5).
track_end_wake(s, t) ==
    IF /\ s.last_track # None
       /\ ~IsStream(s.last_track)
       /\ Duration(s.last_track) < ShortTrackMs
    THEN Sleep(s, t, "te_sleep7", TrackEndSleep7)
    ELSE process_next(track_end_body(s), t, 0, TRUE)


\* hook, for an event whose node is not the node the player is bound to:
\* TrackEnd and TrackStart return, TrackException reports the error and
\* returns; the TrackStuck branch does not look at event.node.
EventKinds == {"TrackEnd", "TrackStart", "TrackException", "TrackStuck"}

hook_foreign(s, t, kind) ==
    IF s.is_closing THEN Ret(s, t)
    ELSE IF kind = "TrackStuck" THEN track_end_enter(s, t)
    ELSE Ret(s, t)

\* ------------------------------------------------------------ history notes
\* What the environment did, for the scenario properties: completions and
\* process_next commands are counted, anything else sets other.
NoteEnd(s, tr) == [s EXCEPT !.ghost.ends = Min(@ + 1, MaxEnds),
                            !.ghost.ended = tr]

NotePn(s) == [s EXCEPT !.ghost.pns = Min(@ + 1, MaxEnds)]

Other(s) == [s EXCEPT !.ghost.other = TRUE]

\* ------------------------------------------------------------- node events
\* The bound node ends the track it plays (FINISHED), or reports the end a
\* stop or a replacing play request caused; hook handles the event.
CanTrackEnd(reason) ==
    /\ FreeSlots # {}
    /\ IF reason = "FINISHED" THEN node_playing.track # None
                              ELSE reason \in pending_ends

EvTrackEnd(reason) ==
    LET t  == NewTask
        s0 == IF reason = "FINISHED"
              THEN NoteEnd([S EXCEPT !.node_playing = NodeIdle],
                           node_playing.track)
              ELSE Other([S EXCEPT !.pending_ends = @ \ {reason}])
    IN hook_track_end(Spawn(s0, t, "TrackEnd"), t, reason)

\* A second TrackEnd (FINISHED) for the track whose TrackEnd was handled
\* before, while the node plays the track that followed it.
CanDupTrackEnd ==
    /\ FreeSlots # {}
    /\ ghost.ended # None
    /\ node_playing.track # None
    /\ node_playing.track # ghost.ended
    /\ current = node_playing.track

EvDupTrackEnd ==
    LET t  == NewTask
        s0 == Spawn(Other(S), t, "TrackEnd")
    IN hook_track_end([s0 EXCEPT !.tasks[t].dup = TRUE], t, "FINISHED")

\* The bound node reports the playing track as stuck.
CanTrackStuck ==
    /\ FreeSlots # {}
    /\ node_playing.track # None

EvTrackStuck ==
    LET t == NewTask
    IN hook_track_stuck(Spawn(Other(S), t, "TrackStuck"), t)

\* The bound node raises TrackException for the track it plays, which ends.
Causes == {"unavailable", "net", "403", "429", "decode", "interrupted", "other"}

CanTrackException ==
    /\ FreeSlots # {}
    /\ node_playing.track # None
    /\ ghost.occ < MaxOcc

EvTrackException(cause) ==
    LET t  == NewTask
        s0 == Other([S EXCEPT !.node_playing = NodeIdle, !.ghost.occ = @ + 1])
    IN hook_exception(Spawn(s0, t, "TrackException"), t, cause)

\* A command calls process_next (the player has no current track).
CanProcessNext ==
    /\ FreeSlots # {}
    /\ current = None

EvProcessNext ==
    LET t == NewTask
    IN process_next(Spawn(NotePn(S), t, "command"), t, 0, TRUE)

\* ------------------------------------------------- actions of the coroutines
HookTrackEnd ==
    \E reason \in {"FINISHED", "STOPPED", "REPLACED"} :
        CanTrackEnd(reason) /\ Apply(EvTrackEnd(reason))

HookTrackStuck == CanTrackStuck /\ Apply(EvTrackStuck)

HookTrackException ==
    \E cause \in Causes : CanTrackException /\ Apply(EvTrackException(cause))

CmdProcessNext == CanProcessNext /\ Apply(EvProcessNext)

TrackEndWake ==
    \E t \in Tasks :
        /\ tasks[t].pc = "te_sleep"
        /\ Awake(t)
        /\ Apply(track_end_wake(S, t))

TrackEndWake7 ==
    \E t \in Tasks :
        /\ tasks[t].pc = "te_sleep7"
        /\ Awake(t)
        /\ Apply(process_next(track_end_body(S), t, 0, TRUE))

\* process_next: resolve_track returned (ok: the track has an id now;
\* none: it has not) or raised.
ProcessNextResolved ==
    \E t \in Tasks, outcome \in {"ok", "none", "raise"} :
        /\ tasks[t].pc = "pn_resolve"
        /\ Apply(CASE outcome = "ok" ->
                        pn_after_resolve(
                          [S EXCEPT !.track_id = @ \cup {tasks[t].track}], t)
                   [] outcome = "none" ->
                        Sleep(Other(S), t, "pn_skip_sleep", UnresolvedSleep)
                   [] OTHER ->
                        process_next(Other([S EXCEPT !.locked = FALSE]),
                                     t, 0, TRUE))

\* process_next, alternative search of a youtube track (native_yt off).
ProcessNextAltSearched ==
    \E t \in Tasks, outcome \in {"found", "none"} :
        /\ tasks[t].pc = "pn_altsearch"
        /\ Apply(IF outcome = "found"
                 THEN pn_finish([S EXCEPT !.temp_id = @ \cup {tasks[t].track}], t)
                 ELSE Sleep([S EXCEPT !.failed_tracks =
                                        AppendMax(@, tasks[t].track, FailedMaxLen),
                                      !.current = tasks[t].track],
                            t, "pn_skip_sleep", AltSkipSleep))

\* process_next, node search for a track without id.
ProcessNextSearched ==
    \E t \in Tasks, outcome \in {"ok", "empty", "raise", "not_requested"} :
        /\ tasks[t].pc = "pn_search"
        /\ Apply(CASE outcome = "ok" ->
                        pn_finish([S EXCEPT !.track_id = @ \cup {tasks[t].track}], t)
                   [] outcome = "empty" ->
                        Sleep(Other(S), t, "pn_skip_sleep", UnresolvedSleep)
                   [] outcome = "raise" ->
                        Sleep(Other(S), t, "pn_skip_sleep", SearchErrSleep)
                   [] OTHER -> Ret(CreateWaiter(Other(S), node), t))

\* process_next after the sleep of an error path: unlock, next track.
ProcessNextSkipWake ==
    \E t \in Tasks :
        /\ tasks[t].pc = "pn_skip_sleep"
        /\ Awake(t)
        /\ Apply(process_next([S EXCEPT !.locked = FALSE], t, 0, TRUE))

\* process_next: play and invoke_np have returned.
ProcessNextPlayed ==
    \E t \in Tasks :
        /\ tasks[t].pc = "pn_play"
        /\ Apply(Ret(S, t))

\* get_autoqueue_tracks: the related-content lookup has ended with the
\* raw result list raw.  An empty list ends in the error message and
\* sleep(7); else the filtered results extend queue_autoplay, whose head is
\* returned to process_next (None if there is none: stop and idle timer).
aq_results(s, t, raw) ==
    IF raw = <<>>
    THEN aq_none(NoteLookup(s, raw), t)
    ELSE LET s1 == NoteLookup(s, raw)
             qa == ExtendMax(s.queue_autoplay, autoqueue_filter(s, raw),
                             AutoplayMaxLen)
         IN IF qa = <<>>
            THEN pn_idle([s1 EXCEPT !.locked = FALSE, !.ghost.aq = "empty"], t)
            ELSE pn_after_pop([s1 EXCEPT !.locked = FALSE,
                                         !.queue_autoplay = Tail(qa)],
                              t, Head(qa), s.tasks[t].start, FALSE)

AutoqueueLookedWith(results) ==
    \E t \in Tasks, raw \in results :
        /\ tasks[t].pc = "aq_lookup"
        /\ Apply(aq_results(S, t, raw))

AutoqueueLooked == AutoqueueLookedWith(RawResults(S))

\* get_autoqueue_tracks: node.get_tracks has raised.  A failure to read
\* the mix is followed by a ytsearch for the author of the seed; after any
\* other error the loop sleeps and goes on with the next seed.
AutoqueueRaised ==
    \E t \in Tasks, mix \in BOOLEAN :
        /\ tasks[t].pc = "aq_lookup"
        /\ Apply(IF mix THEN At(S, t, "aq_ytsearch")
                 ELSE Sleep(S, t, "aq_next", AutoplayRetrySleep))

AutoqueueNextWake ==
    \E t \in Tasks :
        /\ tasks[t].pc = "aq_next"
        /\ Awake(t)
        /\ Apply(aq_seed(S, t, Tail(tasks[t].rest)))

\* get_autoqueue_tracks: the ytsearch has ended: with results, which are
\* taken in reverse order, or with an error, and the next seed is tried.
AutoqueueYtSearched ==
    \E t \in Tasks :
        /\ tasks[t].pc = "aq_ytsearch"
        /\ \/ \E raw \in RawResults(S) : Apply(aq_results(S, t, Reverse(raw)))
           \/ Apply(aq_seed(S, t, Tail(tasks[t].rest)))

\* get_autoqueue_tracks: spotify.recommendations has ended: with tracks
\* (without any, node.get_tracks is asked), or with an error, which is
\* followed by sleep(5).
AutoqueueSpotify ==
    \E t \in Tasks :
        /\ tasks[t].pc = "aq_spotify"
        /\ \/ \E raw \in RawResults(S) :
                Apply(IF raw = <<>> THEN At(S, t, "aq_lookup")
                      ELSE aq_results(S, t, raw))
           \/ Apply(Sleep([S EXCEPT !.tasks[t].tries = @ + 1],
                          t, "aq_spotify_wait", SpotifyRetrySleep))

\* get_autoqueue_tracks: the sleep(5) is over; the third failure ends the
\* attempts and node.get_tracks is asked.
AutoqueueSpotifyWake ==
    \E t \in Tasks :
        /\ tasks[t].pc = "aq_spotify_wait"
        /\ Awake(t)
        /\ Apply(IF tasks[t].tries < SpotifyAttempts
                 THEN At(S, t, "aq_spotify")
                 ELSE At(S, t, "aq_lookup"))

AutoqueueFailWake ==
    \E t \in Tasks :
        /\ tasks[t].pc = "aq_fail"
        /\ Awake(t)
        /\ Apply(pn_idle(S, t))

\* hook, 403 inside a fresh window: play and sleep(3) are over.
Exc403FirstWake ==
    \E t \in Tasks :
        /\ tasks[t].pc = "ex_403_first"
        /\ Awake(t)
        /\ Apply(Ret([S EXCEPT !.locked = FALSE], t))

\* hook, counted 403 retry: sleep(3) is over.
Exc403RetryWake ==
    \E t \in Tasks :
        /\ tasks[t].pc = "ex_403_retry"
        /\ Awake(t)
        /\ LET s1 == [S EXCEPT !.retries_403.last_time = now]
           IN Apply(IF s1.is_closing THEN Ret(s1, t)
                    ELSE IF ~s1.auto_pause
                         THEN Ret([s1 EXCEPT !.locked = FALSE], t)
                    ELSE Ret(Play([s1 EXCEPT !.locked = FALSE], tasks[t].track,
                                  get_start_pos(s1, tasks[t].track, Extra403Ms)),
                             t))

\* hook, node rotation: list(self.node.players), in the order of the dict.
\* A player that has been destroyed is no longer in node.players.
PlayersOf(s) ==
    LET me == IF s.destroy_task.pc = "done" THEN <<>> ELSE <<"me">>
        pr == IF s.peer.node = s.node THEN <<"peer">> ELSE <<>>
    IN IF s.peer.before THEN pr \o me ELSE me \o pr

\* hook, node rotation: the loop "for player_id in list(self.node.players)"
\* from the player ids in rest up to its next await.  self.node.players is
\* read again for each id: an id that is not in the dict that self.node
\* now refers to raises KeyError, which ends hook.
RECURSIVE rotate_loop(_, _, _)
rotate_loop(s, t, rest) ==
    IF rest = <<>> THEN Ret(s, t)
    ELSE IF Head(rest) = "me"
    THEN LET s1 == [s EXCEPT !.current = s.last_track]
             n  == rotation_node(s1)
         IN IF n # None
            THEN At([s1 EXCEPT !.tasks[t].target = n,
                               !.tasks[t].rest = Tail(rest),
                               !.ghost.rotFrom = s.node,
                               !.ghost.rotTo = None], t, "ex_change")
            ELSE rotate_loop(NoteWaiter(CreateWaiter(s1, None)), t, Tail(rest))
    ELSE IF s.peer.node # s.node THEN Ret(s, t)
    ELSE LET s1 == [s EXCEPT !.peer.current = s.peer.last_track]
             n  == rotation_node(s1)
         IN IF n # None
            THEN At([s1 EXCEPT !.tasks[t].target = n,
                               !.tasks[t].rest = Tail(rest)],
                    t, "ex_change_peer")
            ELSE rotate_loop([s1 EXCEPT !.peer.waiter = TRUE], t, Tail(rest))

\* hook, node rotation after sleep(3).
ExcRotateWake ==
    \E t \in Tasks :
        /\ tasks[t].pc = "ex_rotate"
        /\ Awake(t)
        /\ Apply(rotate_loop(S, t, PlayersOf(S)))

\* hook, node rotation: change_node of this player returned or raised.
ExcChangeDone ==
    \E t \in Tasks, outcome \in {"ok", "raise"} :
        /\ tasks[t].pc = "ex_change"
        /\ Apply(IF outcome = "ok"
                 THEN LET s1 == change_node(S, tasks[t].target)
                      IN rotate_loop([s1 EXCEPT !.locked = FALSE,
                                                !.ghost.rotTo = s1.node],
                                     t, tasks[t].rest)
                 ELSE Ret(S, t))

\* hook, node rotation: change_node of the other player returned or raised.
ExcPeerChangeDone ==
    \E t \in Tasks, outcome \in {"ok", "raise"} :
        /\ tasks[t].pc = "ex_change_peer"
        /\ Apply(IF outcome = "ok"
                 THEN rotate_loop([S EXCEPT !.peer.node = tasks[t].target,
                                            !.peer.locked = FALSE],
                                  t, tasks[t].rest)
                 ELSE Ret(S, t))

\* hook, generic error classes: the cooldown is over.
ExcCooldownWake ==
    \E t \in Tasks :
        /\ tasks[t].pc = "ex_cooldown"
        /\ Awake(t)
        /\ Apply(process_next([S EXCEPT !.locked = FALSE], t,
                              tasks[t].start, TRUE))

\* ---------------------------------------------------- _wait_for_new_node
\* One pass of the loop of _wait_for_new_node, from its start or from the
\* end of a sleep(5) to its next await.
WaiterRun ==
    /\ new_node_task.pc \in {"created", "poll"}
    /\ new_node_task.pc = "poll" => (timed => now >= new_node_task.wake)
    /\ LET s1 == IF new_node_task.pc = "created"
                 THEN [S EXCEPT !.locked = TRUE] ELSE S
           n  == waiter_node(s1, new_node_task.ignore)
       IN Apply(IF n = None
                THEN [s1 EXCEPT !.new_node_task.pc = "poll",
                                !.new_node_task.wake = now + NodePollSleep]
                ELSE [s1 EXCEPT !.native_yt = TRUE,
                                !.new_node_task.pc = "changing",
                                !.new_node_task.target = n])

\* _wait_for_new_node: change_node returned or raised.
WaiterChanged ==
    \E outcome \in {"ok", "raise"} :
        /\ new_node_task.pc = "changing"
        /\ Apply(IF outcome = "ok"
                 THEN [change_node(S, new_node_task.target) EXCEPT
                         !.locked = FALSE, !.new_node_task = NoWaiter]
                 ELSE [S EXCEPT !.new_node_task.pc = "poll",
                                !.new_node_task.wake = now + NodePollSleep])

\* -------------------------------------------------------------- environment
\* A command appends a track to the queue.
CmdEnqueue ==
    \E tr \in UserTracks :
        /\ ghost.enq < MaxQueue
        /\ Apply(Other([S EXCEPT !.queue = Append(@, tr), !.ghost.enq = @ + 1]))

\* The skip command: stop().
CmdStop ==
    /\ node_playing.track # None
    /\ Apply(Other(Stop(S)))

Tick ==
    /\ timed
    /\ now < Epoch + MaxTime
    /\ Apply([S EXCEPT !.now = @ + 1])

NodeDown ==
    \E n \in Nodes :
        /\ nodes[n].is_available
        /\ ghost.downs < MaxDowns
        /\ Apply([S EXCEPT !.nodes[n].is_available = FALSE,
                           !.ghost.downs = @ + 1])

NodeUp ==
    \E n \in Nodes :
        /\ ~nodes[n].is_available
        /\ Apply([S EXCEPT !.nodes[n].is_available = TRUE])

\* ------------------------------------------------------------ idling_mode
\* The idling_mode coroutine idle_task refers to, or the orphan.
IdleCo(s, which) ==
    IF which = "task" THEN [pc |-> s.idle_task.pc, wake |-> s.idle_task.wake]
    ELSE s.idle_task.orphan

SetIdleCo(s, which, c) ==
    IF which = "task"
    THEN [s EXCEPT !.idle_task.pc = c.pc, !.idle_task.wake = c.wake]
    ELSE [s EXCEPT !.idle_task.orphan = IF c.pc = "done" THEN NoTimer ELSE c]

\* idling_mode returning in every mode, without the sleep.
idling_mode_check_return(s) == [pc |-> "done", wake |-> 0]

\* idling_mode after process_rpc, process_idle_message, update_stage_topic:
\* it returns in persistent mode and in autoplay mode, else it sleeps.
idling_mode_check(s) ==
    IF s.keep_connected THEN [pc |-> "done", wake |-> 0]
    ELSE IF s.autoplay THEN [pc |-> "done", wake |-> 0]
    ELSE [pc |-> "sleep", wake |-> s.now + IdleTimeout]

\* playerdestroy: create_task(process_destroy()).  Calls beyond MaxDestroy
\* pending ones are not counted: all but the first to run return at once.
playerdestroy(s) ==
    [s EXCEPT !.destroy_task.calls = Min(@ + 1, MaxDestroy)]

\* The event loop starts idling_mode, which runs to its first await.
IdleRun ==
    \E which \in {"task", "orphan"} :
        /\ IdleCo(S, which).pc = "created"
        /\ Apply(SetIdleCo(S, which, [pc |-> "await", wake |-> 0]))

IdleAwaited ==
    \E which \in {"task", "orphan"} :
        /\ IdleCo(S, which).pc = "await"
        /\ Apply(SetIdleCo(S, which, idling_mode_check(S)))

\* asyncio.sleep(IDLE_TIMEOUT) is over: playerdestroy.
IdleExpire ==
    \E which \in {"task", "orphan"} :
        /\ IdleCo(S, which).pc = "sleep"
        /\ timed => now >= IdleCo(S, which).wake
        /\ Apply(playerdestroy(SetIdleCo(S, which, [pc |-> "done", wake |-> 0])))

\* -------------------------------------------------------- process_destroy
\* _new_node_task.cancel(): _wait_for_new_node ends in its sleeps; while it
\* awaits change_node its except: catches the cancellation, and it sleeps
\* and polls on.
cancel_waiter(s) ==
    IF s.new_node_task.pc = "changing"
    THEN [s.new_node_task EXCEPT !.pc = "poll", !.wake = s.now + NodePollSleep]
    ELSE NoWaiter

\* process_destroy from its entry to the first await of cleanup.
process_destroy(s) ==
    IF s.is_closing THEN s
    ELSE [s EXCEPT !.is_closing = TRUE,
                   !.queue = <<>>,
                   !.played = <<>>,
                   !.members_timeout_task = NoTimer,
                   !.ghost.cancels = @ \o << "members_timeout_task",
                                             "auto_skip_track_task",
                                             "_queue_updater_task" >>,
                   !.destroy_task.pc = "cleanup"]

\* The end of cleanup with the idle timer cancelled first.
cleanup_end_idle_first(s) ==
    [s EXCEPT !.new_node_task = cancel_waiter(s),
              !.idle_task = cancel_idle(@),
              !.ghost.cancels = @ \o << "idle_task", "_new_node_task",
                                        "message_updater_task" >>,
              !.destroy_task.pc = "destroy"]

\* cleanup from its last await to its end: process_destroy awaits
\* super().destroy().
cleanup_end(s) ==
    [s EXCEPT !.new_node_task = cancel_waiter(s),
              !.idle_task = cancel_idle(@),
              !.ghost.cancels = @ \o << "message_updater_task",
                                        "_new_node_task", "idle_task" >>,
              !.destroy_task.pc = "destroy"]

\* wavelink.Player.destroy: the node drops the player and what it plays.
destroy(s) ==
    [s EXCEPT !.destroy_task.pc = "done",
              !.node_playing = NodeIdle,
              !.pending_ends = {},
              !.nodes[s.node].players = IF @ > 0 THEN @ - 1 ELSE 0]

\* The event loop starts a process_destroy coroutine.
ProcessDestroyRun ==
    /\ destroy_task.calls > 0
    /\ Apply(process_destroy([S EXCEPT !.destroy_task.calls = @ - 1]))

ProcessDestroyCleaned ==
    /\ destroy_task.pc = "cleanup"
    /\ Apply(cleanup_end(S))

ProcessDestroyed ==
    /\ destroy_task.pc = "destroy"
    /\ Apply(destroy(S))

\* The stop command: playerdestroy.
CmdDestroy ==
    /\ destroy_task.calls < MaxDestroy
    /\ Apply(playerdestroy(S))

\* ------------------------------------------------ hook: WebsocketClosed
\* Close codes of the voice websocket: the benign one, two of the codes of
\* hook's list, 4014 (disconnected) and two codes hook does not name.
CloseCodes == {1000, 1006, 4006, 4014, 4009, 4015}

\* hook: "if event.code in (4000, 1006, 1001, 4016, 4005, 4006)".
ReconnectCodes == {4000, 1006, 1001, 4016, 4005, 4006}

\* hook for WebsocketClosed up to its first await.  me: guild.me exists.
hook_websocket_closed(s, t, code, me) ==
    IF s.is_closing THEN Ret(s, t)
    ELSE IF code = 1000 THEN Ret(s, t)
    ELSE IF ~me THEN At(s, t, "ws_destroy")
    ELSE IF code \in ReconnectCodes THEN Sleep(s, t, "ws_sleep3", 3)
    ELSE IF code = 4014 THEN Sleep(s, t, "ws_sleep1", 1)
    ELSE Ret(s, t)

\* The voice websocket of the player was closed with a code.
HookWebsocketClosed ==
    \E code \in CloseCodes, me \in BOOLEAN :
        /\ FreeSlots # {}
        /\ ghost.closes < MaxCloses
        /\ LET t  == NewTask
               s0 == [S EXCEPT !.ghost.closes = @ + 1, !.ghost.code = code,
                               !.ghost.me = me]
           IN Apply(hook_websocket_closed(Spawn(s0, t, "WebsocketClosed"),
                                          t, code, me))

\* hook, WebsocketClosed, after sleep(3): connect(vc_id) unless closing.
WsReconnectWake ==
    \E t \in Tasks :
        /\ tasks[t].pc = "ws_sleep3"
        /\ Awake(t)
        /\ Apply(IF is_closing THEN Ret(S, t)
                 ELSE Ret([S EXCEPT !.ghost.connects = Min(@ + 1, MaxCloses)], t))

\* hook, WebsocketClosed with code 4014, after sleep(1): the player is
\* destroyed unless the bot is in a voice channel (in_voice).
WsLostWake ==
    \E t \in Tasks, in_voice \in BOOLEAN :
        /\ tasks[t].pc = "ws_sleep1"
        /\ Awake(t)
        /\ Apply(IF in_voice THEN Ret(S, t) ELSE At(S, t, "ws_destroy"))

\* hook, WebsocketClosed: "await self.destroy(force=True)" has returned.
WsDestroyed ==
    \E t \in Tasks :
        /\ tasks[t].pc = "ws_destroy"
        /\ Apply(Ret(destroy(S), t))

\* -------------------------------------------------------- members_timeout
MtDone == [pc |-> "done", wake |-> 0]

\* members_timeout(check=False) from "if check" to the sleep: it returns if
\* the voice channel has an eligible listener.
members_timeout_check(s) ==
    IF s.members THEN [s EXCEPT !.members_timeout_task = MtDone]
    ELSE IF s.auto_pause THEN [s EXCEPT !.members_timeout_task = MtDone]
    ELSE [s EXCEPT !.members_timeout_task =
                     [pc |-> "sleep", wake |-> s.now + MembersTimeout]]

\* members_timeout from its entry to its first await: an auto-paused player
\* with a track resumes it.
members_timeout_enter(s) ==
    IF s.auto_pause
    THEN IF s.current # None
         THEN [Play([s EXCEPT !.paused = FALSE], s.current,
                    IF IsStream(s.current) THEN 0 ELSE Position(s))
                 EXCEPT !.members_timeout_task = [pc |-> "play", wake |-> 0]]
         ELSE members_timeout_check([s EXCEPT !.auto_pause = FALSE])
    ELSE members_timeout_check(s)

\* The expiry without the second look at the voice channel.
members_timeout_wake_nolook(s) ==
    LET s1 == [s EXCEPT !.members_timeout_task = MtDone]
    IN IF s.keep_connected
       THEN IF s.paused \/ s.auto_pause THEN s1
            ELSE [s1 EXCEPT !.auto_pause = TRUE, !.paused = TRUE]
       ELSE IF s.is_closing THEN s1
       ELSE playerdestroy(s1)

\* members_timeout after asyncio.sleep(idle_timeout); set_pause(True) sets
\* paused.
members_timeout_wake(s) ==
    LET s1 == [s EXCEPT !.members_timeout_task = MtDone]
    IN IF s.members THEN s1
       ELSE IF s.keep_connected
       THEN IF s.paused \/ s.auto_pause THEN s1
            ELSE [s1 EXCEPT !.auto_pause = TRUE, !.paused = TRUE]
       ELSE IF s.is_closing THEN s1
       ELSE playerdestroy(s1)

\* The voice-state listener starts the empty-channel timer:
\* members_timeout_task = create_task(members_timeout(check=False)); mtGen
\* tells one timer from the next.
MembersTimeoutStart ==
    /\ members_timeout_task.pc \in {"none", "done"}
    /\ ~is_closing
    /\ Apply(members_timeout_enter([S EXCEPT !.ghost.mtGen = ~@]))

\* members_timeout: play returned.
MembersTimeoutPlayed ==
    /\ members_timeout_task.pc = "play"
    /\ Apply(members_timeout_check([S EXCEPT !.auto_pause = FALSE]))

MembersTimeoutWake ==
    /\ members_timeout_task.pc = "sleep"
    /\ timed => now >= members_timeout_task.wake
    /\ Apply(members_timeout_wake(S))

\* members_timeout(check=True) after "update_log = True": with a current
\* track sleep(1.5) and invoke_np, else process_next in the task slot t.
members_timeout_resumed(s, t) ==
    IF s.current # None
    THEN [s EXCEPT !.members_timeout_task =
                     [pc |-> "rejoin_sleep", wake |-> s.now + ResumeLogSleep]]
    ELSE process_next(Spawn([s EXCEPT !.members_timeout_task = MtDone],
                            t, "members"), t, 0, TRUE)

\* members_timeout(check=True) with no play request for the current track.
members_timeout_rejoin_noplay(s, t) ==
    IF s.auto_pause
    THEN IF s.current # None
         THEN [s EXCEPT !.paused = FALSE,
                        !.members_timeout_task = [pc |-> "rejoin_play", wake |-> 0]]
         ELSE members_timeout_resumed([s EXCEPT !.auto_pause = FALSE], t)
    ELSE [s EXCEPT !.members_timeout_task = MtDone]

\* members_timeout(check=True) from its entry to its first await: an
\* auto-paused player with a track resumes it at position (a stream at 0).
members_timeout_rejoin(s, t) ==
    IF s.auto_pause
    THEN IF s.current # None
         THEN [Play([s EXCEPT !.paused = FALSE], s.current,
                    IF IsStream(s.current) THEN 0 ELSE Position(s))
                 EXCEPT !.members_timeout_task = [pc |-> "rejoin_play", wake |-> 0]]
         ELSE members_timeout_resumed([s EXCEPT !.auto_pause = FALSE], t)
    ELSE [s EXCEPT !.members_timeout_task = MtDone]

\* The voice-state listener sees an eligible listener in the channel:
\* members_timeout_task = create_task(members_timeout(check=True)).
MembersRejoin ==
    /\ members_timeout_task.pc \in {"none", "done"}
    /\ members /\ ~is_closing
    /\ FreeSlots # {}
    /\ Apply(members_timeout_rejoin([S EXCEPT !.ghost.mtGen = ~@], NewTask))

\* members_timeout(check=True): play returned.
MembersRejoinPlayed ==
    /\ members_timeout_task.pc = "rejoin_play"
    /\ FreeSlots # {}
    /\ Apply(members_timeout_resumed([S EXCEPT !.auto_pause = FALSE], NewTask))

\* members_timeout(check=True): sleep(1.5) is over; invoke_np and
\* update_stage_topic send messages.
MembersRejoinWake ==
    /\ members_timeout_task.pc = "rejoin_sleep"
    /\ timed => now >= members_timeout_task.wake
    /\ Apply([S EXCEPT !.members_timeout_task = MtDone])

\* An eligible listener joins the voice channel, or the last one leaves.
MemberJoin == ~members /\ Apply([S EXCEPT !.members = TRUE])

MemberLeave == members /\ Apply([S EXCEPT !.members = FALSE])

\* The pause and resume commands: set_pause.
CmdPause ==
    /\ current # None /\ ~paused /\ ~is_closing
    /\ Apply([S EXCEPT !.paused = TRUE])

CmdResume ==
    /\ current # None /\ paused /\ ~auto_pause /\ ~is_closing
    /\ Apply([S EXCEPT !.paused = FALSE])

\* ------------------------------------------------------------ ErrorHandler
\* What follows the report to the user in process_interaction_error and in
\* on_legacy_command_error: "kill 1", or the webhook report, or nothing.
after_report(s, h) ==
    LET c == s.app.handlers[h]
    IN IF c.kill_process THEN [s EXCEPT !.app.handlers[h].pc = "kill"]
       ELSE IF ~c.send_webhook THEN [s EXCEPT !.app.handlers[h] = NoHandler]
       ELSE [s EXCEPT !.app.handlers[h].pc = "webhook"]

ErrorKinds == {"PoolException", "UnknownInteraction", "CommandNotFound",
               "NotOwner", "other"}

\* process_interaction_error up to "await send_message(...)".  error_msg
\* and kill_process are what parse_error returns for the error.
process_interaction_error(s, h, kind, error_msg, kill_process) ==
    IF kind \in {"PoolException", "UnknownInteraction"} THEN s
    ELSE [s EXCEPT !.app.handlers[h] =
            [ pc |-> "send", which |-> "interaction",
              error_msg |-> error_msg, kill_process |-> kill_process,
              send_webhook |-> ~error_msg /\ s.app.AUTO_ERROR_REPORT_WEBHOOK ]]

\* process_interaction_error: send_message returned, or raised and the
\* except block rebuilds the message: with AUTO_ERROR_REPORT_WEBHOOK set and
\* an error_msg, kwargs["embed"] does not exist and the block raises.
interaction_sent(s, h, ok) ==
    LET c == s.app.handlers[h]
    IN IF ok THEN after_report([s EXCEPT !.app.told = TRUE], h)
       ELSE IF s.app.AUTO_ERROR_REPORT_WEBHOOK
       THEN IF c.error_msg THEN [s EXCEPT !.app.handlers[h] = NoHandler]
            ELSE [s EXCEPT !.app.handlers[h].send_webhook = TRUE,
                           !.app.handlers[h].pc = "send2"]
       ELSE [s EXCEPT !.app.handlers[h].pc = "send2"]

\* on_legacy_command_error up to "await func(...)".
on_legacy_command_error(s, h, kind, error_msg, kill_process, embed_links) ==
    IF kind \in {"PoolException", "CommandNotFound", "NotOwner"} THEN s
    ELSE [s EXCEPT !.app.handlers[h] =
            [ pc |-> "func", which |-> "legacy",
              error_msg |-> error_msg, kill_process |-> kill_process,
              send_webhook |-> /\ ~error_msg /\ embed_links
                               /\ s.app.AUTO_ERROR_REPORT_WEBHOOK ]]

InteractionError ==
    \E h \in Handlers, kind \in ErrorKinds, error_msg, kill_process \in BOOLEAN :
        /\ app.alive
        /\ app.handlers[h].pc = "free"
        /\ \A g \in Handlers : g < h => app.handlers[g].pc # "free"
        /\ Apply(process_interaction_error(S, h, kind, error_msg, kill_process))

InteractionSent ==
    \E h \in Handlers, ok \in BOOLEAN :
        /\ app.alive
        /\ app.handlers[h].pc = "send"
        /\ Apply(interaction_sent(S, h, ok))

\* The second send_message returned, or raised and the error is printed.
InteractionSentAgain ==
    \E h \in Handlers :
        /\ app.alive
        /\ app.handlers[h].pc = "send2"
        /\ Apply(after_report([S EXCEPT !.app.told = TRUE], h))

LegacyCommandError ==
    \E h \in Handlers, kind \in ErrorKinds,
       error_msg, kill_process, embed_links \in BOOLEAN :
        /\ app.alive
        /\ app.handlers[h].pc = "free"
        /\ \A g \in Handlers : g < h => app.handlers[g].pc # "free"
        /\ Apply(on_legacy_command_error(S, h, kind, error_msg, kill_process,
                                         embed_links))

\* on_legacy_command_error: func returned, or raised out of the listener.
LegacySent ==
    \E h \in Handlers, ok \in BOOLEAN :
        /\ app.alive
        /\ app.handlers[h].pc = "func"
        /\ Apply(IF ok THEN after_report([S EXCEPT !.app.told = TRUE], h)
                 ELSE [S EXCEPT !.app.handlers[h] = NoHandler])

\* The webhook report, its sleep(20) and the release are over.
WebhookSent ==
    \E h \in Handlers :
        /\ app.alive
        /\ app.handlers[h].pc = "webhook"
        /\ Apply([S EXCEPT !.app.handlers[h] = NoHandler])

\* asyncio.create_subprocess_shell("kill 1") of a handler has run.
HandlerKill ==
    \E h \in Handlers :
        /\ app.alive
        /\ app.handlers[h].pc = "kill"
        /\ Apply([S EXCEPT !.app.handlers[h] = NoHandler, !.app.alive = FALSE])

\* ----------------------------------------------------------- _send_rpc_data
RECURSIVE send_rpc_loop(_, _)

\* _send_rpc_data after the token of the head of rest is known: an observer
\* without a token is passed over when ENABLE_RPC_AUTH is set; else
\* ws_client.send(stats) is awaited.
send_rpc_token(s, token) ==
    IF s.app.ENABLE_RPC_AUTH /\ token = ""
    THEN send_rpc_loop(s, Tail(s.app.rpc.rest))
    ELSE [s EXCEPT !.app.rpc.pc = "send"]

\* _send_rpc_data: the loop over users, from the observer at the head of
\* rest to the next await; a user that is not in rpc_token_cache is looked
\* up with get_global_data.
send_rpc_loop(s, rest) ==
    IF rest = <<>>
    THEN [s EXCEPT !.app.rpc.pc = "done", !.app.rpc.rest = <<>>]
    ELSE LET u  == Head(rest)
             s1 == [s EXCEPT !.app.rpc.rest = rest,
                             !.app.rpc.tried = @ \cup {u}]
         IN IF s.app.rpc_token_cache[u] # None
            THEN send_rpc_token(s1, s.app.rpc_token_cache[u])
            ELSE [s1 EXCEPT !.app.rpc.pc = "token"]

\* process_rpc calls _send_rpc_data with the users of the voice channel.
SendRpcData ==
    \E users \in UNION { [1..k -> Observers] : k \in 1..MaxObservers } :
        /\ app.rpc.pc = "none"
        /\ \A i, j \in DOMAIN users : i # j => users[i] # users[j]
        /\ Apply(send_rpc_loop([S EXCEPT !.app.rpc = [NoRpc EXCEPT !.users = users]],
                               users))

\* get_global_data has ended: with the data of the user, whose token it
\* has put in the cache; with data that hold no token, and data["token"]
\* raises KeyError; or with an error of the database.  No handler in
\* _send_rpc_data catches the last two.
RpcTokenLoaded ==
    \E out \in Tokens \cup {"KeyError", "raise"} :
        /\ app.rpc.pc = "token"
        /\ LET u == Head(app.rpc.rest)
           IN Apply(IF out \in Tokens
                    THEN send_rpc_token(
                           [S EXCEPT !.app.rpc_token_cache[u] = out], out)
                    ELSE [S EXCEPT !.app.rpc.pc = "raised",
                                   !.app.rpc.failed = @ \cup {u}])

\* ws_client.send has ended; an exception is printed and the loop goes on.
RpcSent ==
    \E ok \in BOOLEAN :
        /\ app.rpc.pc = "send"
        /\ LET u == Head(app.rpc.rest)
           IN Apply(send_rpc_loop(
                      IF ok THEN [S EXCEPT !.app.rpc.sent = Append(@, u)]
                      ELSE [S EXCEPT !.app.rpc.failed = @ \cup {u}],
                      Tail(app.rpc.rest)))

\* ----------------------------------------------------------------- BotPool
\* start_bot: bot.start raised.  exc is the exception: "429" an
\* HTTPException with status 429, "other" any other.
start_bot_failed(s, b, exc) ==
    IF exc = "429"
    THEN IF ~s.app.KILL_ON_429
         THEN IF s.app.killing_state = "ratelimit"
              THEN [s EXCEPT !.app.bots[b] = "returned"]
              ELSE [s EXCEPT !.app.killing_state = "ratelimit",
                             !.app.told = TRUE,
                             !.app.bots[b] = "sleep10"]
         ELSE IF s.app.killing_state = "True"
              THEN [s EXCEPT !.app.bots[b] = "returned"]
              ELSE [s EXCEPT !.app.killing_state = "True",
                             !.app.told = TRUE,
                             !.app.bots[b] = "sleep5"]
    ELSE [s EXCEPT !.app.failed_bots = @ \cup {b}, !.app.told = TRUE,
                   !.app.bots[b] = "failed"]

\* run_bots creates the task of start_bot, which awaits bot.start.
StartBot ==
    \E b \in Bots :
        /\ app.alive
        /\ app.bots[b] = "new"
        /\ Apply([S EXCEPT !.app.bots[b] = "starting"])

StartBotFailed ==
    \E b \in Bots, exc \in {"429", "other"} :
        /\ app.alive
        /\ app.bots[b] = "starting"
        /\ Apply(start_bot_failed(S, b, exc))

\* start_bot after sleep(10): "raise e" with e = None raises TypeError,
\* which ends the task.
StartBotRaise ==
    \E b \in Bots :
        /\ app.alive
        /\ app.bots[b] = "sleep10"
        /\ Apply([S EXCEPT !.app.bots[b] = "raised"])

\* start_bot after sleep(5): asyncio.create_subprocess_shell("kill 1").
StartBotKill ==
    \E b \in Bots :
        /\ app.alive
        /\ app.bots[b] = "sleep5"
        /\ Apply([S EXCEPT !.app.bots[b] = "returned", !.app.alive = FALSE])

\* ------------------------------------------------------------------- Init
NoLoops == [tr \in Tracks |-> 0]

NoGhost == [ leak |-> FALSE, enq |-> 0, occ |-> 0, ended |-> None,
             ends |-> 0, pns |-> 0, other |-> FALSE, q0 |-> <<>>,
             streak |-> 0, lastOcc |-> -1, lastTrack |-> None,
             lastNode |-> None, escAt |-> 0, escCause |-> "none", downs |-> 0, tl0 |-> NoLoops, rotFrom |-> None,
             rotTo |-> None, hit |-> FALSE, read |-> -1, prevRead |-> -1, readOver |-> FALSE,
             cancels |-> <<>>, mtGen |-> FALSE,
             closes |-> 0, code |-> 0, me |-> TRUE, connects |-> 0,
             quiet |-> FALSE, aq |-> "none",
             failing |-> None, waitFor |-> None ]

\* An idle player bound to node n, with the queue q the commands have
\* filled, loop mode lp, repeat counters tl, the kwargs autoplay and
\* keep_connected, the history pl, the failed tracks ft and native_yt ny.
Session(n, q, lp, tl, ap, kc, pl, ft, ny) ==
    /\ current = None /\ queue = q /\ played = pl
    /\ failed_tracks = ft /\ queue_autoplay = <<>> /\ last_track = None
    /\ locked = FALSE /\ is_closing = FALSE /\ auto_pause = FALSE
    /\ paused = FALSE /\ loop = lp /\ is_previows_music = FALSE
    /\ native_yt = ny /\ autoplay = ap /\ keep_connected = kc
    /\ node = n
    /\ retries_403 = [last_time |-> -1, counter |-> 0]
    /\ retries_general_errors = [set |-> FALSE, counter |-> GeneralRetries,
                                 last_node |-> None, last_time |-> 0]
    /\ last_update = 0 /\ last_position = 0
    /\ track_loops = tl
    /\ track_id = HasIdAtStart /\ temp_id = {}
    /\ idle_task = NoIdle /\ new_node_task = NoWaiter
    /\ members_timeout_task = NoTimer /\ destroy_task = NoDestroy
    /\ members = TRUE
    /\ tasks = [t \in Tasks |-> FreeTask]
    /\ now = Epoch
    /\ nodes = [m \in Nodes |-> [is_available |-> TRUE, retry_403 |-> TRUE,
                                 closing |-> FALSE,
                                 players |-> IF m = n THEN 1 ELSE 0]]
    /\ node_playing = NodeIdle /\ pending_ends = {}
    /\ ghost = [NoGhost EXCEPT !.q0 = q, !.tl0 = tl]

\* The same in an application with the default configuration.
Running(n, q, lp, tl, ap, kc, pl, ft, ny) ==
    /\ Session(n, q, lp, tl, ap, kc, pl, ft, ny)
    /\ app = AppStart(FALSE, FALSE)

\* The player after construction.
ConstructedWith(n, q, lp, tl, ap, kc) ==
    /\ Running(n, q, lp, tl, ap, kc, <<>>, <<>>, TRUE)
    /\ peer = NoPeer

\* The same with the defaults autoplay = False, keep_connected = False.
Constructed(n, q, lp, tl) == ConstructedWith(n, q, lp, tl, FALSE, FALSE)

\* Concurrent handlers of one player; the clock is not modelled.
Init ==
    /\ Constructed("N1", <<>>, "off", NoLoops)
    /\ timed = FALSE

Next ==
    \/ CmdEnqueue \/ CmdProcessNext \/ CmdStop
    \/ HookTrackEnd \/ HookTrackStuck
    \/ TrackEndWake \/ TrackEndWake7
    \/ ProcessNextResolved \/ ProcessNextSearched \/ ProcessNextSkipWake
    \/ ProcessNextPlayed

Spec == Init /\ [][Next]_vars

\* ------------------------------------------------- one coroutine at a time
\* The same handlers, with every event and command arriving only when no
\* coroutine of the player is suspended in an await.
SeqProcessNext == AllIdle /\ CmdProcessNext

SeqStop == AllIdle /\ CmdStop

SeqTrackEnd == AllIdle /\ HookTrackEnd

SeqDupTrackEnd == AllIdle /\ CanDupTrackEnd /\ Apply(EvDupTrackEnd)

SeqTrackStuck == AllIdle /\ HookTrackStuck

\* At most MaxFaults TrackException events, of every error class.
SeqTrackException ==
    /\ AllIdle
    /\ ghost.occ < MaxFaults
    /\ HookTrackException

\* TrackException events of the rate-limit classes only.
SeqRateLimited ==
    \E cause \in {"403", "429"} :
        /\ AllIdle
        /\ CanTrackException
        /\ Apply(EvTrackException(cause))

\* The queues a scenario starts from: distinct tracks, in every order.
DistinctSeqs(n) ==
    { q \in UNION { [1..k -> UserTracks] : k \in 0..n } :
          \A i, j \in DOMAIN q : i # j => q[i] # q[j] }

LoopModes == {"off", "current", "queue"}

InitSeq ==
    /\ \E q \in DistinctSeqs(MaxInit), lp \in LoopModes,
          tl \in {NoLoops, [NoLoops EXCEPT !["A"] = 1]} :
           Constructed("N1", q, lp, tl)
    /\ timed = FALSE

NextSeq ==
    \/ SeqProcessNext \/ SeqStop
    \/ SeqTrackEnd \/ SeqDupTrackEnd \/ SeqTrackStuck
    \/ TrackEndWake \/ TrackEndWake7
    \/ ProcessNextResolved \/ ProcessNextSearched
    \/ ProcessNextSkipWake \/ ProcessNextPlayed
    \/ WaiterRun \/ WaiterChanged

SpecSeq == InitSeq /\ [][NextSeq]_vars

\* ------------------------------------------------- failures, one at a time
\* Serial handlers with TrackException events of every class, nodes that go
\* down and come back, and the node-wait loop.
InitFail ==
    /\ \E q \in DistinctSeqs(MaxFailInit) : Constructed("N1", q, "off", NoLoops)
    /\ timed = FALSE

NextFail ==
    \/ SeqProcessNext \/ SeqTrackEnd \/ SeqTrackException
    \/ TrackEndWake \/ TrackEndWake7
    \/ ProcessNextResolved \/ ProcessNextAltSearched \/ ProcessNextSearched
    \/ ProcessNextSkipWake \/ ProcessNextPlayed
    \/ Exc403FirstWake \/ Exc403RetryWake \/ ExcRotateWake \/ ExcChangeDone
    \/ ExcCooldownWake
    \/ WaiterRun \/ WaiterChanged
    \/ NodeDown \/ NodeUp

SpecFail == InitFail /\ [][NextFail]_vars

\* ------------------------------------------------ rate limits, with a clock
\* Serial handlers with the clock: the queue holds one youtube track several
\* times, the node answers with 403 or 429, commands start the next copy.
ErrQueue == [i \in 1..(MaxOcc - 1) |-> "A"]

InitErr ==
    /\ Constructed("N1", ErrQueue, "off", NoLoops)
    /\ timed = TRUE

NextErr ==
    \/ SeqProcessNext \/ SeqRateLimited \/ SeqTrackEnd
    \/ TrackEndWake \/ TrackEndWake7
    \/ ProcessNextPlayed
    \/ Exc403FirstWake \/ Exc403RetryWake \/ ExcRotateWake \/ ExcChangeDone
    \/ Tick

SpecErr == InitErr /\ [][NextErr]_vars

\* ------------------------------------------------------- position reads
\* The node has played the track to its end.
NodeDone ==
    /\ node_playing.track # None
    /\ NodePosition(S) >= Duration(node_playing.track)

\* playerUpdate of the bound node: the position it has reached.
NodeUpdate ==
    /\ node_playing.track # None
    /\ Apply(update_state(S, Min(NodePosition(S), Duration(node_playing.track))))

\* A read of the position property while the player is playing and not
\* paused (is_playing: current is set); prevRead is the read before it of
\* the same playback, -1 if there is none.
ReadPosition ==
    /\ current # None /\ ~paused
    /\ Apply([S EXCEPT !.ghost.prevRead = ghost.read,
                       !.ghost.read = Position(S),
                       !.ghost.readOver = Extrapolated(S) > Duration(current)])

\* The TrackEnd of a track played to its end arrives at once.
PosTrackEnd ==
    /\ AllIdle
    /\ NodeDone
    /\ CanTrackEnd("FINISHED")
    /\ Apply(EvTrackEnd("FINISHED"))

PosTick == ~NodeDone /\ Tick

PosQueues == { <<tr>> : tr \in HasIdAtStart \cap UserTracks }

InitPos ==
    /\ \E q \in PosQueues : Constructed("N1", q, "off", NoLoops)
    /\ timed = TRUE

NextPos ==
    \/ SeqProcessNext \/ ProcessNextPlayed
    \/ NodeUpdate \/ ReadPosition
    \/ PosTrackEnd \/ TrackEndWake \/ TrackEndWake7
    \/ PosTick

SpecPos == InitPos /\ [][NextPos]_vars

\* ------------------------------------------------------------- autoplay
\* Serial handlers of a session constructed with autoplay = True.
InitAuto ==
    /\ \E q \in DistinctSeqs(MaxFailInit) :
           ConstructedWith("N1", q, "off", NoLoops, TRUE, FALSE)
    /\ timed = FALSE

NextAuto ==
    \/ SeqProcessNext \/ SeqTrackEnd \/ SeqStop
    \/ TrackEndWake \/ TrackEndWake7
    \/ ProcessNextResolved \/ ProcessNextSearched
    \/ ProcessNextSkipWake \/ ProcessNextPlayed
    \/ AutoqueueLooked \/ AutoqueueFailWake
    \/ WaiterRun \/ WaiterChanged

SpecAuto == InitAuto /\ [][NextAuto]_vars

\* ------------------------------------------------------------ idle timer
\* Serial handlers with the clock in normal mode: commands enqueue a track
\* the node can play at once and advance, the idle timer runs, and
\* process_destroy runs when the timer has asked for it.
IdleEnqueue ==
    /\ ghost.enq < MaxIdleEnq
    /\ Apply(Other([S EXCEPT !.queue = Append(@, "B"), !.ghost.enq = @ + 1]))

\* At most MaxIdleCmds commands call process_next.
IdleProcessNext == ghost.pns < MaxIdleCmds /\ SeqProcessNext

\* The last second of the idle-timer scenarios.
Horizon == Epoch + MaxIdleTime

IdleTick == now < Horizon /\ Tick

InitIdle ==
    /\ Constructed("N1", <<>>, "off", NoLoops)
    /\ timed = TRUE

NextIdle ==
    \/ IdleEnqueue \/ IdleProcessNext \/ SeqTrackEnd
    \/ TrackEndWake \/ ProcessNextPlayed
    \/ IdleRun \/ IdleAwaited \/ IdleExpire
    \/ ProcessDestroyRun \/ ProcessDestroyCleaned \/ ProcessDestroyed
    \/ IdleTick

SpecIdle == InitIdle /\ [][NextIdle]_vars

\* The event loop runs every coroutine that is ready, and time passes.
SpecIdleFair ==
    /\ SpecIdle
    /\ WF_vars(IdleTick)
    /\ WF_vars(IdleRun) /\ WF_vars(IdleAwaited) /\ WF_vars(IdleExpire)
    /\ WF_vars(ProcessDestroyRun)

\* The same in every mode (autoplay, keep_connected), with the related
\* content lookup; the clock is not modelled.
InitModes ==
    /\ \E ap \in BOOLEAN, kc \in BOOLEAN :
           ConstructedWith("N1", <<>>, "off", NoLoops, ap, kc)
    /\ timed = FALSE

NextModes ==
    \/ IdleEnqueue \/ IdleProcessNext \/ SeqTrackEnd
    \/ TrackEndWake \/ ProcessNextPlayed
    \/ AutoqueueLooked \/ AutoqueueFailWake
    \/ IdleRun \/ IdleAwaited \/ IdleExpire
    \/ ProcessDestroyRun \/ ProcessDestroyCleaned \/ ProcessDestroyed

SpecModes == InitModes /\ [][NextModes]_vars

SpecModesFair ==
    /\ SpecModes
    /\ WF_vars(IdleRun) /\ WF_vars(IdleAwaited) /\ WF_vars(IdleExpire)
    /\ WF_vars(ProcessDestroyRun)

\* ------------------------------------------------------ empty-channel timer
\* A session in persistent or in normal mode with one track queued: a
\* command starts it, listeners leave and join, the user pauses and
\* resumes, the empty-channel timer runs; the clock is not modelled.
InitMembers ==
    /\ \E kc \in BOOLEAN :
           ConstructedWith("N1", <<"B">>, "off", NoLoops, FALSE, kc)
    /\ timed = FALSE

NextMembers ==
    \/ IdleProcessNext \/ ProcessNextPlayed
    \/ MemberJoin \/ MemberLeave \/ CmdPause \/ CmdResume
    \/ MembersTimeoutStart \/ MembersTimeoutPlayed \/ MembersTimeoutWake
    \/ ProcessDestroyRun \/ ProcessDestroyCleaned \/ ProcessDestroyed

SpecMembers == InitMembers /\ [][NextMembers]_vars

\* The same session in persistent mode, with the listener's call of
\* members_timeout(check=True) when an eligible listener is in the channel,
\* the player updates of the node and a clock.
InitRejoin ==
    /\ \E tr \in {"A", "B"} :
           ConstructedWith("N1", <<tr>>, "off", NoLoops, FALSE, TRUE)
    /\ timed = TRUE

RejoinStop == AllIdle /\ CmdStop

RejoinTick == now < Epoch + MaxRejoinTime /\ Tick

NextRejoin ==
    \/ IdleProcessNext \/ ProcessNextPlayed \/ RejoinStop
    \/ MemberJoin \/ MemberLeave
    \/ MembersTimeoutStart \/ MembersTimeoutPlayed \/ MembersTimeoutWake
    \/ MembersRejoin \/ MembersRejoinPlayed \/ MembersRejoinWake
    \/ NodeUpdate \/ RejoinTick

SpecRejoin == InitRejoin /\ [][NextRejoin]_vars

\* The event loop resumes members_timeout when its play request or its
\* sleep has ended.
SpecRejoinFair ==
    SpecRejoin /\ WF_vars(MembersRejoinPlayed \/ MembersRejoinWake)

\* ------------------------------------------------------------------ destroy
\* A session with one track queued that is destroyed at any moment: events
\* and commands arrive one at a time, the steps of process_destroy
\* interleave with the handlers that are suspended, and the node raises
\* TrackException (rate limit or another error); the clock is not modelled.
FaultCauses == {"403", "429", "other"}

DestroyFault ==
    \E cause \in FaultCauses :
        /\ AllIdle
        /\ ghost.occ < MaxDestroyFaults
        /\ CanTrackException
        /\ Apply(EvTrackException(cause))

InitDestroy ==
    /\ Constructed("N1", <<"B">>, "off", NoLoops)
    /\ timed = FALSE

NextDestroy ==
    \/ IdleProcessNext \/ SeqTrackEnd \/ SeqTrackStuck \/ DestroyFault
    \/ TrackEndWake \/ ProcessNextPlayed
    \/ Exc403FirstWake \/ ExcRotateWake \/ ExcChangeDone \/ ExcCooldownWake
    \/ CmdDestroy
    \/ ProcessDestroyRun \/ ProcessDestroyCleaned \/ ProcessDestroyed

SpecDestroy == InitDestroy /\ [][NextDestroy]_vars

\* The same with up to MaxFaults TrackException events, nodes that go down
\* and come back, and the node-wait loop.
DestroyFaults ==
    \E cause \in FaultCauses :
        /\ AllIdle
        /\ ghost.occ < MaxFaults
        /\ CanTrackException
        /\ Apply(EvTrackException(cause))

NextDestroyFail ==
    \/ IdleProcessNext \/ SeqTrackEnd \/ DestroyFaults
    \/ TrackEndWake \/ ProcessNextPlayed
    \/ Exc403FirstWake \/ Exc403RetryWake \/ ExcRotateWake \/ ExcChangeDone
    \/ ExcCooldownWake
    \/ WaiterRun \/ WaiterChanged
    \/ NodeDown \/ NodeUp
    \/ CmdDestroy
    \/ ProcessDestroyRun \/ ProcessDestroyCleaned \/ ProcessDestroyed

SpecDestroyFail == InitDestroy /\ [][NextDestroyFail]_vars

\* -------------------------------------------------------------------- rings
\* A session in autoplay mode that has run for long: played and
\* failed_tracks hold one entry less than their maxlen, or are full; the
\* oldest entry is track D.  One track is queued; a lookup returns as many
\* related tracks as queue_autoplay holds, or more.
NearFull(n) == { <<"D">> \o [i \in 1..k |-> "B"] : k \in {n - 2, n - 1} }

LongResults ==
    { [i \in 1..k |-> "R"] : k \in {AutoplayMaxLen, AutoplayMaxLen + MaxRaw} }

RingLooked == AutoqueueLookedWith(LongResults)

InitRings ==
    /\ \E tr \in UserTracks, pl \in NearFull(PlayedMaxLen),
          ft \in NearFull(FailedMaxLen), ny \in BOOLEAN :
           Running("N1", <<tr>>, "off", NoLoops, TRUE, FALSE, pl, ft, ny)
    /\ peer = NoPeer
    /\ timed = FALSE

NextRings ==
    \/ SeqProcessNext \/ SeqTrackEnd
    \/ TrackEndWake \/ TrackEndWake7
    \/ ProcessNextResolved \/ ProcessNextAltSearched \/ ProcessNextSearched
    \/ ProcessNextSkipWake \/ ProcessNextPlayed
    \/ RingLooked

SpecRings == InitRings /\ [][NextRings]_vars

\* ------------------------------------------------------------- presence
\* One presence broadcast of an idle session, with every content of
\* rpc_token_cache and with and without ENABLE_RPC_AUTH.
InitRpc ==
    /\ Session("N1", <<>>, "off", NoLoops, FALSE, FALSE, <<>>, <<>>, TRUE)
    /\ peer = NoPeer
    /\ \E auth \in BOOLEAN, cache \in [Observers -> Tokens \cup {None}] :
           app = [AppStart(FALSE, FALSE) EXCEPT !.ENABLE_RPC_AUTH = auth,
                                                !.rpc_token_cache = cache]
    /\ timed = FALSE

NextRpc == SendRpcData \/ RpcTokenLoaded \/ RpcSent

SpecRpc == InitRpc /\ [][NextRpc]_vars

\* -------------------------------------------------------- failed lookups
\* Serial handlers of a session in autoplay mode whose history holds up to
\* MaxInit tracks, with and without a spotify client; the lookups of
\* get_autoqueue_tracks may fail.
InitLookup ==
    /\ \E pl \in DistinctSeqs(MaxInit), sp \in BOOLEAN :
           /\ Session("N1", <<>>, "off", NoLoops, TRUE, FALSE, pl, <<>>, TRUE)
           /\ app = [AppStart(FALSE, FALSE) EXCEPT !.spotify = sp]
    /\ peer = NoPeer
    /\ timed = FALSE

LookupProcessNext == ghost.pns < MaxLookups /\ SeqProcessNext

NextLookup ==
    \/ LookupProcessNext \/ ProcessNextPlayed
    \/ AutoqueueLooked \/ AutoqueueRaised \/ AutoqueueNextWake
    \/ AutoqueueYtSearched \/ AutoqueueSpotify \/ AutoqueueSpotifyWake
    \/ AutoqueueFailWake

SpecLookup == InitLookup /\ [][NextLookup]_vars

\* The event loop runs the coroutine whose await has ended, and every
\* request and sleep of get_autoqueue_tracks ends; one coroutine is in
\* flight at a time.
LookupStep ==
    \/ ProcessNextPlayed
    \/ AutoqueueLooked \/ AutoqueueRaised \/ AutoqueueNextWake
    \/ AutoqueueYtSearched \/ AutoqueueSpotify \/ AutoqueueSpotifyWake
    \/ AutoqueueFailWake

SpecLookupFair == SpecLookup /\ WF_vars(LookupStep)

\* --------------------------------------------------------------- seeds
\* An idle session in autoplay mode with an empty queue and an empty
\* autoplay buffer, after up to MaxHist tracks have been played: a short
\* track A and the long tracks B and D, in every order.
Histories == UNION { [1..k -> {"A", "B", "D"}] : k \in 0..MaxHist }

InitSeeds ==
    /\ \E pl \in Histories :
           Running("N1", <<>>, "off", NoLoops, TRUE, FALSE, pl, <<>>, TRUE)
    /\ peer = NoPeer
    /\ timed = FALSE

NextSeeds ==
    \/ SeqProcessNext \/ ProcessNextPlayed
    \/ AutoqueueLooked \/ AutoqueueFailWake

SpecSeeds == InitSeeds /\ [][NextSeeds]_vars

\* -------------------------------------------------------------- queue order
\* The serial scenarios of every loop mode, with one TrackException of any
\* error class.
OrderFault ==
    /\ AllIdle
    /\ ghost.occ < MaxDestroyFaults
    /\ HookTrackException

OrderTracks == {"A", "B"}

InitOrder ==
    /\ \E q \in DistinctSeqs(MaxInit), lp \in LoopModes,
          tl \in {NoLoops, [NoLoops EXCEPT !["A"] = 1]} :
           /\ \A i \in 1..Len(q) : q[i] \in OrderTracks
           /\ Constructed("N1", q, lp, tl)
    /\ timed = FALSE

NextOrder ==
    \/ SeqProcessNext
    \/ SeqTrackEnd \/ TrackEndWake
    \/ ProcessNextPlayed
    \/ OrderFault
    \/ ProcessNextAltSearched
    \/ Exc403FirstWake \/ ExcRotateWake \/ ExcChangeDone \/ ExcCooldownWake
    \/ WaiterRun \/ WaiterChanged

SpecOrder == InitOrder /\ [][NextOrder]_vars

\* ------------------------------------------------- events of another node
\* A node the player is not bound to sends an event for the player.
HookForeign ==
    \E kind \in EventKinds, n \in Nodes \ {node} :
        /\ AllIdle
        /\ LET t == NewTask
           IN Apply(hook_foreign(Spawn(S, t, "foreign"), t, kind))

InitForeign ==
    /\ \E q \in DistinctSeqs(MaxInit) :
           /\ \A i \in 1..Len(q) : q[i] \in OrderTracks
           /\ Constructed("N1", q, "off", NoLoops)
    /\ timed = FALSE

NextForeign ==
    \/ SeqProcessNext \/ SeqTrackEnd \/ HookForeign
    \/ TrackEndWake \/ TrackEndWake7
    \/ ProcessNextPlayed

SpecForeign == InitForeign /\ [][NextForeign]_vars

\* ------------------------------------------------- progress after an end
\* A session with up to MaxInit tracks queued; the TrackEnd events of the
\* node arrive whenever the node has them, also while a handler is
\* suspended; at most MaxDestroyFaults TrackException events with a 403
\* cause.
ProgressFault ==
    /\ AllIdle
    /\ ghost.occ < MaxDestroyFaults
    /\ CanTrackException
    /\ Apply(EvTrackException("403"))

InitProgress ==
    /\ \E q \in DistinctSeqs(MaxInit) :
           /\ \A i \in 1..Len(q) : q[i] \in OrderTracks
           /\ Constructed("N1", q, "off", NoLoops)
    /\ timed = FALSE

NextProgress ==
    \/ IdleProcessNext \/ ProcessNextPlayed
    \/ HookTrackEnd \/ TrackEndWake \/ TrackEndWake7
    \/ ProgressFault \/ Exc403FirstWake

SpecProgress == InitProgress /\ [][NextProgress]_vars

\* The event loop resumes every coroutine whose await has ended; events
\* and commands are not fair.
SpecProgressFair ==
    /\ SpecProgress
    /\ WF_vars(ProcessNextPlayed)
    /\ WF_vars(TrackEndWake) /\ WF_vars(TrackEndWake7)
    /\ WF_vars(Exc403FirstWake)

\* ---------------------------------------------------------- repeat counter
\* Serial handlers of a session with loop mode off whose queued tracks
\* have repeat counters of up to MaxLoops.
InitRepeat ==
    /\ \E q \in DistinctSeqs(MaxInit), a, b \in 0..MaxLoops :
           /\ \A i \in 1..Len(q) : q[i] \in OrderTracks
           /\ Constructed("N1", q, "off",
                          [NoLoops EXCEPT !["A"] = a, !["B"] = b])
    /\ timed = FALSE

NextRepeat ==
    \/ SeqProcessNext
    \/ SeqTrackEnd \/ SeqTrackStuck
    \/ TrackEndWake \/ TrackEndWake7
    \/ ProcessNextPlayed

SpecRepeat == InitRepeat /\ [][NextRepeat]_vars

\* ------------------------------------------------- transient network errors
\* TrackException events of the transient-network class only: "net" is a
\* read timeout or an unreachable network (hook's first test of the cause),
\* "decode" the causes of the list of the generic block, connect timeout
\* and unknown host among them.
NetCauses == {"net", "decode"}

NetFault ==
    \E cause \in NetCauses :
        /\ AllIdle
        /\ ghost.occ < MaxFaults
        /\ CanTrackException
        /\ Apply(EvTrackException(cause))

NextNet ==
    \/ SeqProcessNext \/ SeqTrackEnd \/ SeqTrackStuck \/ NetFault
    \/ TrackEndWake \/ TrackEndWake7
    \/ ProcessNextResolved \/ ProcessNextSearched
    \/ ProcessNextSkipWake \/ ProcessNextPlayed
    \/ ExcCooldownWake
    \/ WaiterRun \/ WaiterChanged

SpecNet == InitFail /\ [][NextNet]_vars

\* ------------------------------------------------------------ quiet periods
\* Serial handlers with the clock: two copies of a youtube track, errors of
\* the 403 class and of the decode class, a node that goes down, and once
\* a period of GeneralWindow seconds in which nothing happens.
QuietQueue == <<"B", "B">>

QuietFault ==
    \E cause \in {"403", "decode"} :
        /\ AllIdle
        /\ ghost.occ < MaxFaults
        /\ CanTrackException
        /\ Apply(EvTrackException(cause))

QuietPeriod ==
    /\ AllIdle
    /\ new_node_task.pc = "none"
    /\ ~ghost.quiet
    /\ Apply([S EXCEPT !.now = @ + GeneralWindow, !.ghost.quiet = TRUE])

QuietTick ==
    /\ now - Epoch - (IF ghost.quiet THEN GeneralWindow ELSE 0) < MaxQuietTime
    /\ Apply([S EXCEPT !.now = @ + 1])

InitQuiet ==
    /\ Constructed("N1", QuietQueue, "off", NoLoops)
    /\ timed = TRUE

NextQuiet ==
    \/ SeqProcessNext \/ SeqTrackEnd \/ QuietFault
    \/ TrackEndWake \/ ProcessNextPlayed
    \/ Exc403FirstWake \/ Exc403RetryWake \/ ExcCooldownWake
    \/ WaiterRun \/ WaiterChanged
    \/ NodeDown \/ NodeUp
    \/ QuietPeriod \/ QuietTick

SpecQuiet == InitQuiet /\ [][NextQuiet]_vars

\* ---------------------------------------------------------- voice websocket
\* A session that plays, with WebsocketClosed events of every kind of code,
\* and the stop command.
NextWs ==
    \/ IdleProcessNext \/ ProcessNextPlayed
    \/ SeqTrackEnd \/ TrackEndWake
    \/ HookWebsocketClosed
    \/ WsReconnectWake \/ WsLostWake \/ WsDestroyed
    \/ CmdDestroy
    \/ ProcessDestroyRun \/ ProcessDestroyCleaned \/ ProcessDestroyed

SpecWs == InitDestroy /\ [][NextWs]_vars

\* ---------------------------------------------------------- the application
\* Command errors and start-up failures, for both settings of KILL_ON_429
\* and AUTO_ERROR_REPORT_WEBHOOK.
InitApp ==
    /\ Session("N1", <<>>, "off", NoLoops, FALSE, FALSE, <<>>, <<>>, TRUE)
    /\ peer = NoPeer
    /\ \E k, a \in BOOLEAN : app = AppStart(k, a)
    /\ timed = FALSE

NextApp ==
    \/ InteractionError \/ InteractionSent \/ InteractionSentAgain
    \/ LegacyCommandError \/ LegacySent
    \/ WebhookSent \/ HandlerKill
    \/ StartBot \/ StartBotFailed \/ StartBotRaise \/ StartBotKill

SpecApp == InitApp /\ [][NextApp]_vars

\* ------------------------------------------------------------- two players
\* A second player of the bot, idle or playing, on either node, created
\* before or after this one; this player runs into one TrackException.
Peers ==
    [ node : Nodes, current : {None, "A"}, last_track : {"A"},
      locked : BOOLEAN, waiter : {FALSE}, before : BOOLEAN ]

InitPeers ==
    /\ Running("N1", <<"B">>, "off", NoLoops, FALSE, FALSE, <<>>, <<>>, TRUE)
    /\ peer \in Peers
    /\ timed = FALSE

NextPeers ==
    \/ IdleProcessNext \/ ProcessNextPlayed
    \/ DestroyFault
    \/ Exc403FirstWake \/ ExcCooldownWake
    \/ ExcRotateWake \/ ExcChangeDone \/ ExcPeerChangeDone
    \/ NodeDown \/ NodeUp
    \/ WaiterRun \/ WaiterChanged

SpecPeers == InitPeers /\ [][NextPeers]_vars

\* ================================================================ properties
\* C1: locked guarantees at most one in-flight queue advance: there is never
\* a state in which two process_next invocations of the player have both
\* passed the entry guard and neither has returned.
C1_AtMostOneProcessNext ==
    Cardinality({t \in Tasks : tasks[t].inPN}) <= 1

\* C2: a process_next that succeeds (track popped, made current, play
\* request issued) finds locked false when it returns, whatever other
\* handlers ran while it was suspended.
C2_UnlockedAfterSuccess ==
    [][\A t \in Tasks :
         (tasks[t].pc = "pn_play" /\ tasks'[t].pc # "pn_play") => ~locked']_vars

\* C4: the handler of a node event (TrackEnd, TrackException, TrackStuck)
\* that hook received while locked was true changes none of current, queue,
\* played, failed_tracks and locked.
C4_LockedEventsDropped ==
    [][\A t \in Tasks :
         ( /\ tasks[t].atLocked
           /\ tasks[t].kind \in {"TrackEnd", "TrackException", "TrackStuck"}
           /\ tasks'[t] # tasks[t] )
         => ( <<current, queue, played, failed_tracks, locked>>' =
              <<current, queue, played, failed_tracks, locked>> )]_vars

\* C3: every process_next invocation that sets locked clears it before it
\* returns, on the success path and on every error exit path; no exit leaves
\* locked true with nothing scheduled to clear it.
C3_LockClearedOnExit == ~ghost.leak

\* C5: the handler of a duplicate TrackEnd (for a track that is no longer
\* current, the next track having been started) changes none of current,
\* queue and played.
C5_DuplicateTrackEndNoOp ==
    [][\A t \in Tasks :
         (tasks[t].dup /\ tasks'[t] # tasks[t])
         => <<current, queue, played>>' = <<current, queue, played>>]_vars

\* C6: from queue [A, B] of two distinct resolved tracks, no current track,
\* loop mode off and no repeat counter, process_next sets current = A, and
\* the TrackEnd FINISHED for A that follows ends with current = B,
\* played = [A] and an empty queue.
C6_Scenario ==
    /\ Len(ghost.q0) = 2
    /\ ghost.q0[1] \in HasIdAtStart /\ ghost.q0[2] \in HasIdAtStart
    /\ loop = "off" /\ ghost.tl0 = NoLoops
    /\ ~ghost.other /\ ghost.pns = 1
    /\ AllIdle

C6_FinishAndAdvance ==
    C6_Scenario =>
        /\ ghost.ends = 0 => current = ghost.q0[1]
        /\ ghost.ends = 1 => /\ current = ghost.q0[2]
                             /\ played = <<ghost.q0[1]>>
                             /\ queue = <<>>

C6_Witness == C6_Scenario /\ ghost.ends = 1 /\ current = ghost.q0[2]

\* C7: under loop mode 'queue' every completion preserves the cyclic order
\* of the tracks: after k completions the current track followed by the
\* queue is the initial queue rotated by k, and the queue track_end leaves
\* when it returns is the initial queue rotated by k (for [A, B] and k = 2
\* it is [A, B] again).
Rotate(q, k) == [i \in 1..Len(q) |-> q[((i - 1 + k) % Len(q)) + 1]]

C7_Scenario ==
    /\ ghost.q0 # <<>>
    /\ loop = "queue" /\ ghost.tl0 = NoLoops
    /\ ~ghost.other /\ ghost.pns = 1
    /\ ghost.ends < MaxEnds

C7_LoopQueueCyclic ==
    C7_Scenario =>
        /\ AllIdle => <<current>> \o queue = Rotate(ghost.q0, ghost.ends)
        /\ \A t \in Tasks :
             tasks[t].pc \in {"te_sleep", "te_sleep7"}
             => track_end_body(S).queue = Rotate(ghost.q0, ghost.ends)

C7_Witness ==
    /\ C7_Scenario /\ Len(ghost.q0) = 2 /\ ghost.ends = 2
    /\ \E t \in Tasks : tasks[t].pc \in {"te_sleep", "te_sleep7"}
    /\ track_end_body(S).queue = ghost.q0

C9_RotatesAway ==
    ghost.rotTo # None => ghost.rotTo # ghost.rotFrom

C11_AutoplayFallback ==
    [][\A t \in Tasks :
         (tasks[t].pc = "aq_lookup" /\ tasks'[t].pc # "aq_lookup" /\ ghost'.hit)
         => /\ tasks'[t].pc = "pn_play"
            /\ current' # None
            /\ IsAutoplay(current')
            /\ current' \notin Range(played)]_vars

C11_Witness ==
    /\ ghost.hit
    /\ \E i \in DOMAIN played : Duration(played[i]) >= MinAutoplayMs
    /\ queue = <<>> /\ autoplay
    /\ current # None /\ IsAutoplay(current)
    /\ \E t \in Tasks : tasks[t].pc = "pn_play"

\* C12: idle teardown.  In normal mode (autoplay and keep_connected both
\* disabled) the idle timer process_next has created reaches its sleep
\* unless an advance cancels it; a sleeping timer whose expiry lies within
\* the modelled time is cancelled or replaced by an advance, or asks for
\* the destroy; and a destroy asked for runs: is_closing becomes true.
C12_IdleTeardown ==
    /\ (idle_task.pc \in {"created", "await"} /\ ~autoplay /\ ~keep_connected)
           ~> (idle_task.pc \in {"sleep", "none"} \/ is_closing)
    /\ (idle_task.pc = "sleep" /\ idle_task.wake <= Horizon)
          ~> \/ is_closing
             \/ destroy_task.calls > 0
             \/ idle_task.pc \in {"none", "created", "await"}
    /\ (destroy_task.calls > 0) ~> is_closing

C12_Witness ==
    /\ is_closing /\ ~autoplay /\ ~keep_connected
    /\ idle_task.pc = "done" /\ queue = <<>>
    /\ now >= Epoch + IdleTimeout

\* C13: in every mode the idle timer process_next has created reaches its
\* sleep unless an advance cancels it, the expiry of the sleep asks for the
\* destroy, which runs, and a timer that an advance has cancelled never
\* expires.
C13_EveryModeExpiryDestroys ==
    /\ (idle_task.pc \in {"created", "await"})
          ~> (idle_task.pc \in {"sleep", "none"} \/ is_closing)
    /\ (idle_task.pc = "sleep")
          ~> \/ is_closing
             \/ destroy_task.calls > 0
             \/ idle_task.pc \in {"none", "created", "await"}
    /\ [][~(idle_task.orphan.pc = "sleep" /\ idle_task'.orphan.pc = "none")]_vars

\* The empty-channel timer starts / returns / expires in this step.
MtStarts == ghost'.mtGen # ghost.mtGen

MtReturns ==
    /\ members_timeout_task'.pc = "done"
    /\ MtStarts \/ members_timeout_task.pc \in {"play", "sleep"}

MtExpires == members_timeout_task.pc = "sleep" /\ members_timeout_task'.pc = "done"

\* The step neither pauses the session nor asks for its destroy.
MtNoEffect ==
    /\ ~auto_pause' /\ (paused' => paused)
    /\ destroy_task' = destroy_task /\ is_closing' = is_closing

\* C14: the empty-channel timer.  A timer that finds a listener in the
\* channel, when it starts or when it expires, returns and the session is
\* neither paused nor destroyed; with none at the expiry the session is auto-paused and not
\* destroyed in persistent mode, and its destroy is asked for in normal
\* mode.
C14_EmptyChannelTimer ==
    [][/\ (MtReturns /\ members) => MtNoEffect
       /\ (MtExpires /\ ~members /\ keep_connected)
            => (auto_pause' /\ destroy_task' = destroy_task /\ ~is_closing')
       /\ (MtExpires /\ ~members /\ ~keep_connected)
            => (is_closing' \/ destroy_task'.calls > 0)]_vars

\* C14, amended: in persistent mode a session the user has paused is left as
\* it is.
C14_EmptyChannelTimerUnlessPaused ==
    [][/\ (MtReturns /\ members) => MtNoEffect
       /\ (MtExpires /\ ~members /\ keep_connected /\ ~paused)
            => (auto_pause' /\ paused' /\ destroy_task' = destroy_task /\ ~is_closing')
       /\ (MtExpires /\ ~members /\ keep_connected /\ paused)
            => (auto_pause' = auto_pause /\ paused' /\ destroy_task' = destroy_task
                /\ ~is_closing')
       /\ (MtExpires /\ ~members /\ ~keep_connected)
            => (is_closing' \/ destroy_task'.calls > 0)]_vars

C14_Witness ==
    /\ keep_connected /\ auto_pause /\ paused /\ ~members /\ ~is_closing
    /\ current # None /\ members_timeout_task.pc = "done"

\* The step sends no play request to the node.
NoPlay == node_playing' = node_playing \/ node_playing'.track = None

\* C15: once is_closing is true, a node event passed to hook and a call of
\* process_next change none of current, queue, played and locked and send
\* no play request, and a process_destroy that starts changes nothing.
C15_NoNewWork ==
    [][/\ ( /\ is_closing
            /\ \/ CmdProcessNext \/ HookTrackEnd \/ HookTrackStuck
               \/ HookTrackException )
          => (UNCHANGED << current, queue, played, locked >> /\ NoPlay)
       /\ (is_closing /\ ProcessDestroyRun)
          => /\ destroy_task'.pc = destroy_task.pc
             /\ UNCHANGED << current, queue, played, locked, is_closing,
                             idle_task, new_node_task, members_timeout_task,
                             node_playing, ghost >>]_vars

\* A TrackEnd (FINISHED) has reached hook of the closing session and was
\* dropped: the node is idle, current is still set, nothing else happened.
C15_Witness ==
    /\ is_closing /\ destroy_task.pc = "cleanup" /\ AllIdle
    /\ current # None /\ node_playing.track = None /\ ~locked
    /\ ghost.ends > 0 /\ played = <<>>
    /\ ghost.occ = 0 /\ ghost.downs = 0 /\ new_node_task.pc = "none"

\* The place of a task in the order of the cancellations of the destroy,
\* 0 if it has not been cancelled.
CancelledAt(name) ==
    IF \E i \in DOMAIN ghost.cancels : ghost.cancels[i] = name
    THEN CHOOSE i \in DOMAIN ghost.cancels : ghost.cancels[i] = name
    ELSE 0

C17_EmptyAfterDestroy ==
    destroy_task.pc = "done" => (queue = <<>> /\ played = <<>>)

\* C18: once the destroy of a session has begun (is_closing), a
\* TrackException recovery that was suspended in a backoff sleep or in the
\* node-wait loop does not go on: no play request is sent, the session is
\* not moved to another node and no track is taken from the queue.
C18_NoResumeAfterDestroy ==
    [][is_closing
         => (NoPlay /\ node' = node /\ Len(queue') >= Len(queue))]_vars

\* ring' is ring with one entry appended, the oldest entry evicted if ring
\* held n entries.
AppendedTo(ring, ring2, n) ==
    /\ ring2 # <<>>
    /\ IF Len(ring) = n
       THEN /\ Len(ring2) = n
            /\ \A i \in 1..(n - 1) : ring2[i] = ring[i + 1]
       ELSE /\ Len(ring2) = Len(ring) + 1
            /\ \A i \in 1..Len(ring) : ring2[i] = ring[i]

\* C19: played never holds more than 20 tracks, queue_autoplay and
\* failed_tracks never more than 30, and a step that changes played or
\* failed_tracks appends one track, evicting the oldest one, and only it,
\* from a full ring.
C19_RingsBounded ==
    /\ [](/\ Len(played) <= PlayedMaxLen
          /\ Len(queue_autoplay) <= AutoplayMaxLen
          /\ Len(failed_tracks) <= FailedMaxLen)
    /\ [][/\ played' # played => AppendedTo(played, played', PlayedMaxLen)
          /\ failed_tracks' # failed_tracks
               => AppendedTo(failed_tracks, failed_tracks', FailedMaxLen)]_vars

\* The full history has taken one more track and lost its oldest entry, D.
C19_Witness ==
    /\ Len(played) = PlayedMaxLen /\ played[1] = "B"
    /\ played[PlayedMaxLen] = ghost.ended

\* a is what is left of b after tracks were popped from its head.
IsSuffix(a, b) == \E k \in 0..Len(b) : a = SubSeq(b, k + 1, Len(b))

\* The step is the part of track_end that follows its sleeps.
TrackEndBodyStep ==
    \E t \in Tasks :
        /\ tasks[t].pc \in {"te_sleep", "te_sleep7"}
        /\ tasks'[t].pc \notin {"te_sleep", "te_sleep7"}

\* The step is the start of hook for a TrackException.
ExceptionStep == ghost'.occ # ghost.occ

\* The queue after an error retry has put the failed track back, or not.
AfterRetry ==
    LET track == IF current # None THEN current ELSE last_track
    IN {queue, <<track>> \o queue, Append(queue, track)}

\* The queue after the three reinsertions of track_end: loop-current and
\* repeat counter, both at the head.
AfterThree ==
    IF last_track # None /\ (loop = "current" \/ track_loops[last_track] > 0)
    THEN <<last_track>> \o queue ELSE queue

\* The queue after the reinsertions of track_end, the previous track at
\* index 1 and the loop-queue reinsertion at the tail included.
AfterFive ==
    IF last_track = None THEN queue
    ELSE IF loop = "current" THEN <<last_track>> \o queue
    ELSE IF is_previows_music THEN InsertSecond(queue, last_track)
    ELSE IF track_loops[last_track] > 0 THEN <<last_track>> \o queue
    ELSE IF loop = "queue" THEN Append(queue, last_track)
    ELSE queue

C21_PeerUntouched ==
    [][/\ peer'.current = peer.current
       /\ peer'.locked = peer.locked
       /\ peer'.node = peer.node]_vars

\* The coroutine of task t is a call of hook for a node event.
IsHook(t) ==
    /\ tasks[t].pc # "free"
    /\ tasks[t].kind \in {"TrackEnd", "TrackStuck", "TrackException"}

\* C22: node events of the session are handled one at a time: while the
\* hook call for one event has not returned (it is in a sleep, in track_end
\* or in process_next), no hook call for a later event runs.
C22_OneEventAtATime ==
    \A t, u \in Tasks : IsHook(t) /\ IsHook(u) => t = u

\* C23: no error-handling path terminates the application process: after
\* every command or interaction error and every start-up failure the
\* process is still running.
C23_ProcessKeepsRunning == app.alive

\* C24: a TrackException for unplayable media skips the track for good:
\* while the handler of the event runs on, the track is in failed_tracks,
\* it is not in the queue and it is not the current track again.
C24_UnplayableSkipped ==
    \A t \in Tasks :
        tasks[t].pc # "free" /\ tasks[t].cause = "unavailable" =>
            /\ tasks[t].track \in Range(failed_tracks)
            /\ tasks[t].track \notin Range(queue)
            /\ current # tasks[t].track

\* The local attempts of the generic error classes on the bound node are
\* used up: the counter is below 1 for this node.
LocalExhausted ==
    /\ retries_general_errors.set
    /\ retries_general_errors.counter < 1
    /\ retries_general_errors.last_node = node

\* C25: a TrackException of the transient-network class starts the search
\* for another node (the node-wait loop) only when the local attempts on
\* the bound node are exhausted; before that it is answered by a retry of
\* the same track on the same node.
C25_RetryBeforeRotate ==
    [][ExceptionStep /\ new_node_task'.pc # "none" => LocalExhausted]_vars

\* The step starts the handler of a decode-class TrackException in task t.
DecodeStep(t) ==
    /\ tasks[t].pc = "free" /\ tasks'[t].pc # "free"
    /\ tasks'[t].cause = "decode"

\* The step is the part of track_end after its sleeps, in the handler of a
\* TrackStuck event.
StuckBodyStep(t) ==
    /\ tasks[t].kind = "TrackStuck"
    /\ tasks[t].pc \in {"te_sleep", "te_sleep7"}
    /\ tasks'[t].pc \notin {"te_sleep", "te_sleep7"}

\* C26: decode-class TrackException causes and TrackStuck events get one
\* retry of the same track; a further occurrence puts the track into
\* failed_tracks and advances, without another retry (the track is not put
\* back into the queue) and without recording the track as played.
C26_OneRetryThenSkip ==
    [][\A t \in Tasks :
         /\ DecodeStep(t) /\ retries_general_errors.set =>
                /\ tasks'[t].track \in Range(failed_tracks')
                /\ queue' = queue
         /\ StuckBodyStep(t) => played' = played]_vars

\* The step starts hook for a WebsocketClosed event of a player that is
\* not closing and whose guild still has the bot as a member.
WsStep == ghost'.closes # ghost.closes /\ ~is_closing /\ ghost'.me

\* C27: WebsocketClosed: code 1000 changes nothing of the session; a code
\* of the reconnect list schedules the voice connect; every other code
\* starts the migration to another node (the node rotation or the
\* node-wait loop).
C27_CloseCodeActions ==
    [][WsStep =>
         IF ghost'.code = 1000
         THEN /\ tasks' = tasks /\ node' = node /\ current' = current
              /\ locked' = locked /\ queue' = queue
         ELSE IF ghost'.code \in ReconnectCodes
         THEN \E t \in Tasks : tasks'[t].pc = "ws_sleep3"
         ELSE \/ new_node_task'.pc # "none"
              \/ \E t \in Tasks : tasks'[t].pc \in {"ex_rotate", "ex_change"}]_vars

\* The step starts the handler of a TrackException of the 403 class.
RateStep(t) ==
    /\ tasks[t].pc = "free" /\ tasks'[t].pc # "free"
    /\ tasks'[t].cause = "403"

\* C28: the local retry counter of an error class starts again from its
\* initial value when an error of the class arrives after the bound node
\* has changed or after the quiet period of the class (GeneralWindow
\* seconds for the decode/timeout class, Retry403Window for the 403 class).
C28_CountersReset ==
    [][\A t \in Tasks :
         /\ ( /\ DecodeStep(t)
              /\ retries_general_errors.set
              /\ \/ retries_general_errors.last_node # node
                 \/ now - retries_general_errors.last_time >= GeneralWindow )
            => retries_general_errors'.counter = GeneralRetries
         /\ ( /\ RateStep(t)
              /\ retries_403.last_time # -1
              /\ \/ ghost.lastNode # node
                 \/ now - retries_403.last_time > Retry403Window )
            => retries_403'.counter = 0]_vars

\* n is an available node other than excl with the smallest player count
\* among the available nodes other than excl.
LeastLoaded(n, excl) ==
    /\ n \in Nodes /\ nodes[n].is_available /\ n # excl
    /\ \A m \in Nodes :
          nodes[m].is_available /\ m # excl =>
              nodes[n].players <= nodes[m].players

\* C29: a replacement node, chosen by the rate-limit rotation of hook or by
\* _wait_for_new_node, is available, has the smallest player count among
\* the eligible nodes and is not the excluded node (the rate-limited node
\* the session is bound to, or ignore_node).
C29_LeastLoadedReplacement ==
    [][/\ \A t \in Tasks :
            /\ tasks'[t].pc \in {"ex_change", "ex_change_peer"}
            /\ tasks'[t].pc # tasks[t].pc
            => LeastLoaded(tasks'[t].target, node)
       /\ new_node_task'.pc = "changing" /\ new_node_task.pc # "changing"
            => LeastLoaded(new_node_task'.target, new_node_task'.ignore)]_vars

\* A node _wait_for_new_node may choose exists.
Eligible ==
    \E n \in Nodes : nodes[n].is_available /\ n # new_node_task.ignore

\* C30: while _wait_for_new_node polls and no eligible node exists the
\* session is locked and the queue is not advanced; when change_node to
\* the chosen node succeeds the loop ends with the session bound to that
\* node and unlocked; once the session has been destroyed the loop is
\* gone.
C30_NodeWaitLoop ==
    [][/\ new_node_task.pc = "poll" /\ ~Eligible /\ ~is_closing' =>
            locked /\ queue' = queue
       /\ ( /\ new_node_task.pc = "changing" /\ new_node_task'.pc = "none"
            /\ tasks' = tasks /\ ~is_closing' ) =>
            node' = new_node_task.target /\ ~locked'
       /\ destroy_task'.pc = "done" => new_node_task'.pc = "none"]_vars

\* The eligible entries of the history, the most recently played first.
RecentEligible ==
    Reverse(SelectSeq(played, LAMBDA x : Duration(x) >= MinAutoplayMs))

\* C31: with an empty autoplay buffer the seeds of get_autoqueue_tracks
\* are at most 5 history entries of at least 90000 ms, and they are the
\* most recently played eligible entries, the most recent first.
C31_RecentSeeds ==
    \A t \in Tasks :
        tasks[t].pc = "aq_lookup" =>
            LET seeds == tracks_search(S)
                want  == RecentEligible
            IN /\ Len(seeds) <= MaxSeeds + 1
               /\ \A i \in DOMAIN seeds : Duration(seeds[i]) >= MinAutoplayMs
               /\ seeds = SubSeq(want, 1, Min(Len(want), MaxSeeds + 1))

\* The awaits of get_autoqueue_tracks.
AqPcs == {"aq_lookup", "aq_ytsearch", "aq_next", "aq_spotify",
          "aq_spotify_wait", "aq_fail"}

\* C32: a seed is given at most 3 attempts at the recommendation service;
\* when the lookup fails or yields nothing usable, get_autoqueue_tracks
\* ends with locked false and returns no track, and the calling
\* process_next ends with no current track and the idle timer armed; a
\* lookup always comes to an end.
C32_FailedLookupIdles ==
    /\ [][\A t \in Tasks :
            /\ tasks'[t].tries <= SpotifyAttempts
            /\ tasks[t].pc # "aq_fail" /\ tasks'[t].pc = "aq_fail" => ~locked'
            /\ ( /\ tasks[t].pc \in AqPcs /\ tasks'[t].pc = "free"
                 /\ ghost'.aq \in {"failed", "empty"} )
               => /\ current' = None /\ ~locked'
                  /\ idle_task'.pc = "created"
                  /\ queue_autoplay' = queue_autoplay]_vars
    /\ (\E t \in Tasks : tasks[t].pc \in AqPcs)
           ~> (\A t \in Tasks : tasks[t].pc \notin AqPcs)

C32_Witness ==
    /\ AllIdle /\ ghost.aq = "failed"
    /\ current = None /\ ~locked /\ idle_task.pc = "created"
    /\ \E i \in DOMAIN played : SourceName(played[i]) = "spotify"
    /\ app.spotify

\* C33: a failure for one observer of _send_rpc_data, in the token lookup
\* or in the send, does not end the broadcast: when the coroutine is over
\* every observer of the list has been attempted.
C33_FailureDoesNotBlock ==
    (app.rpc.pc \in {"done", "raised"} /\ app.rpc.failed # {})
        => app.rpc.tried = Range(app.rpc.users)

\* members_timeout(check=True) starts on an auto-paused session that has a
\* current track.
RejoinStep ==
    /\ members_timeout_task.pc \in {"none", "done"}
    /\ members_timeout_task'.pc = "rejoin_play"

RequeuedFirst(tr) ==
    \/ queue' = <<tr>> \o queue
    \/ /\ queue' = queue
       /\ \E t \in Tasks : tasks'[t].pc # "free" /\ tasks'[t].track = tr

\* C35: with loop mode off, track_end puts a finished track whose repeat
\* counter is positive back at the head of the queue with the counter
\* decremented by 1, and not in the history; with the counter at 0 the
\* track goes to the history; a track of the history has no repeats left,
\* and no counter is negative.
C35_RepeatCounter ==
    /\ [][\A lt \in Tracks :
            (TrackEndBodyStep /\ loop = "off" /\ last_track = lt) =>
               IF track_loops[lt] > 0
               THEN /\ RequeuedFirst(lt)
                    /\ track_loops' = [track_loops EXCEPT ![lt] = @ - 1]
                    /\ played' = played
               ELSE /\ track_loops' = track_loops
                    /\ ~IsAutoplay(lt) =>
                          played' = AppendMax(played, lt, PlayedMaxLen)]_vars
    /\ [](\A tr \in Tracks :
            /\ track_loops[tr] >= 0
            /\ tr \in Range(played) => track_loops[tr] = 0)

C35_Witness ==
    /\ ghost.tl0["A"] = MaxLoops /\ track_loops["A"] = 0
    /\ played = <<"A">> /\ ghost.ends = MaxLoops + 1 /\ ~ghost.other

\* A play request for the track tr at the start position carried over has
\* been issued on the bound node, which is the node of before.
ReplayedInPlace(tr) ==
    /\ node' = node
    /\ node_playing'.track = tr
    /\ node_playing'.from = get_start_pos(S, tr, Extra403Ms)

\* C36: every local retry of the 403 class on a session that is not
\* auto-paused re-issues a play request for the same track on the same
\* node at the carried-over start position, and ends with locked false:
\* the first 403 of a window as well as the counted retries.
C36_RetryInPlace ==
    [][\A t \in Tasks :
         /\ (tasks[t].pc = "free" /\ tasks'[t].pc = "ex_403_first")
               => ReplayedInPlace(tasks'[t].track)
         /\ (tasks[t].pc = "ex_403_first" /\ tasks'[t].pc = "free")
               => ~locked'
         /\ ( /\ tasks[t].pc = "ex_403_retry" /\ tasks'[t].pc = "free"
              /\ ~auto_pause /\ ~is_closing )
               => ~locked' /\ ReplayedInPlace(tasks[t].track)]_vars

\* The TrackException handler t starts on a cause of none of the retry or
\* rotation classes.
GiveUpStep(t) ==
    /\ tasks[t].pc = "free" /\ tasks'[t].pc = "ex_cooldown"
    /\ tasks'[t].cause = "other"

\* C37: when the TrackException handler gives up on a track, whatever its
\* repeat counter, the track is appended to failed_tracks and is not in
\* the queue; after the cooldown process_next runs with locked false and
\* takes the next entry of the queue.
C37_SkipPermanently ==
    [][\A t \in Tasks :
         /\ GiveUpStep(t) =>
               /\ failed_tracks' =
                    AppendMax(failed_tracks, tasks'[t].track, FailedMaxLen)
               /\ queue' = queue
               /\ tasks'[t].track \notin Range(queue')
         /\ ( /\ tasks[t].pc = "ex_cooldown" /\ tasks[t].cause = "other"
              /\ tasks'[t].pc # "ex_cooldown"
              /\ queue # <<>> /\ ~is_closing /\ nodes[node].is_available )
               => /\ queue' = Tail(queue)
                  /\ tasks'[t].track = Head(queue) \/ current' = Head(queue)]_vars

\* The number of the places current, queue and failed_tracks that hold
\* the track tr in the next state.
PlacesNext(tr) ==
    (IF current' = tr THEN 1 ELSE 0)
    + (IF tr \in Range(queue') THEN 1 ELSE 0)
    + (IF tr \in Range(failed_tracks') THEN 1 ELSE 0)

\* The TrackException handler ends: in the step of the event, or when its
\* coroutine returns.
HandlerEnds ==
    \/ ExceptionStep /\ ~locked /\ ~is_closing /\ AllIdle /\ tasks' = tasks
    \/ \E t \in Tasks : /\ tasks[t].kind = "TrackException"
                         /\ tasks[t].pc # "free" /\ tasks'[t].pc = "free"

\* C38: when hook has finished handling a TrackException of the bound
\* node and no node wait is pending, and when a node wait that the handler
\* started has ended, the track that failed is in exactly one of current,
\* queue and failed_tracks; so is a track that process_next took from the
\* queue and skips because its search failed.
C38_NoTrackLost ==
    [][/\ (HandlerEnds /\ new_node_task'.pc = "none" /\ ~is_closing')
            => PlacesNext(ghost'.failing) = 1
       /\ ( /\ new_node_task.pc # "none" /\ new_node_task'.pc = "none"
            /\ ghost.waitFor # None /\ AllIdle /\ ~is_closing' )
            => PlacesNext(ghost.waitFor) = 1
       /\ \A t \in Tasks :
            (tasks[t].pc = "pn_skip_sleep" /\ tasks'[t].pc # "pn_skip_sleep")
            => PlacesNext(tasks[t].track) = 1]_vars

\* A step of hook for an event of a node the player is not bound to.
ForeignStep ==
    \E t \in Tasks : tasks[t].kind = "foreign" \/ tasks'[t].kind = "foreign"

\* C39: hook leaves current, queue, played, queue_autoplay and locked as
\* they are when the event, of whatever type, comes from a node other
\* than the bound one.
C39_ForeignEventsIgnored ==
    [][ForeignStep =>
          UNCHANGED <<current, queue, played, queue_autoplay, locked>>]_vars

\* The node has reported the end of the current track, and the session is
\* neither closing nor auto-paused.
FinishedCurrent ==
    /\ current # None /\ node_playing.track = None
    /\ ghost.ended = current
    /\ ~is_closing /\ ~auto_pause

\* A track is current and plays, or the session is idle with the idle
\* timer armed.
Advanced ==
    \/ current # None /\ node_playing.track = current
    \/ current = None /\ idle_task.pc # "none"

\* C40: after a TrackEnd with reason FINISHED for the current track of a
\* session that is not closing and not auto-paused, a following track is
\* made current and played or the session becomes idle with the idle
\* timer armed, also when the event arrives while locked is true.
C40_ProgressAfterFinish == FinishedCurrent ~> Advanced
====
